---- MODULE Spec2Model ----
(***************************************************************************)
(* Verification model of the per-connection streaming event pipeline of    *)
(* deflagg/eva: the detection event engines (ROI/line, motion, collision,  *)
(* abandoned object) of packages/eva/vision/app and the websocket          *)
(* connection scheduler and insight buffer of packages/quickvision/app.    *)
(*                                                                         *)
(* Conventions.  A Python dict is a function whose DOMAIN is the set of    *)
(* keys present; Python None is the string "None".  Pixel coordinates,     *)
(* thresholds and timestamps are integers; a comparison of a speed         *)
(* d/(dt/1000) with a threshold is evaluated in its cross-multiplied form, *)
(* which is exact for dt > 0.                                              *)
(***************************************************************************)
EXTENDS Integers, Sequences, FiniteSets, TLC

None == "None"
\* None of an Optional[int] field (timestamps, distances and ids are >= 0).
NoneInt == -1

\* ------------------------------------------------------------------------
\* Program constants
\* ------------------------------------------------------------------------
TRACK_STATE_TTL_MS == 30000
PAIR_STATE_TTL_MS == 30000
PERSON_CLASS_NAME == "person"

\* ------------------------------------------------------------------------
\* Bounds of the model
\* ------------------------------------------------------------------------
\* Timestamps are multiples of TimeStep up to MaxTick * TimeStep.
MaxTick == 6
TimeStep == TRACK_STATE_TTL_MS \div 3
MaxTs == MaxTick * TimeStep
\* Time between two frames: none, one step, exactly the TTL, more than the TTL.
\* The connection: frames received without and with insights, and ticks of
\* the wall clock.
MaxFrames == 2
MaxInsightFrames == 1
MaxClockTick == 1
MaxClipFrames == 3
MaxBufferFrames == 130
ClockStep == TimeStep
MaxClock == MaxClockTick * ClockStep

Deltas == {0, TimeStep, TRACK_STATE_TTL_MS, TRACK_STATE_TTL_MS + TimeStep}

\* ------------------------------------------------------------------------
\* dict helpers
\* ------------------------------------------------------------------------
EmptyDict == [k \in {} |-> None]
Get(d, k, dflt) == IF k \in DOMAIN d THEN d[k] ELSE dflt
Put(d, k, v) == [x \in (DOMAIN d) \cup {k} |-> IF x = k THEN v ELSE d[x]]
Pop(d, k) == [x \in (DOMAIN d) \ {k} |-> d[x]]

Max(a, b) == IF a >= b THEN a ELSE b
Min(a, b) == IF a <= b THEN a ELSE b
Abs(a) == IF a >= 0 THEN a ELSE 0 - a

\* ------------------------------------------------------------------------
\* Geometry (roi.py)
\* ------------------------------------------------------------------------
\* The regions and lines of the configuration, in dict insertion order.
RegionOrder == <<"zone">>
Regions == [zone |-> [x1 |-> 100, y1 |-> 100, x2 |-> 300, y2 |-> 300]]
LineOrder == <<"gate">>
Lines == [gate |-> [x1 |-> 0, y1 |-> 100, x2 |-> 400, y2 |-> 100]]

box_centroid(box) == <<(box[1] + box[3]) \div 2, (box[2] + box[4]) \div 2>>

point_in_region(point, region) ==
    /\ region.x1 <= point[1] /\ point[1] <= region.x2
    /\ region.y1 <= point[2] /\ point[2] <= region.y2

\* epsilon = 1e-6: on integer coordinates cross > epsilon iff cross > 0.
line_side(point, line) ==
    LET cross == (line.x2 - line.x1) * (point[2] - line.y1)
                 - (line.y2 - line.y1) * (point[1] - line.x1)
    IN  IF cross > 0 THEN "A" ELSE IF cross < 0 THEN "B" ELSE None

dwell_threshold_ms_for_region(rs, region_name) ==
    Get(rs.dwell_region_threshold_ms, region_name, rs.dwell_default_threshold_ms)

\* ------------------------------------------------------------------------
\* State
\* ------------------------------------------------------------------------
VARIABLES
    roi_settings,        \* RoiSettings
    motion_settings,     \* MotionSettings
    collision_settings,  \* CollisionSettings
    abandoned_settings,  \* AbandonedSettings
    tracks,              \* DetectionEventEngine._tracks
    motion_tracks,       \* MotionEventEngine._tracks
    pair_state,          \* CollisionEventEngine._pair_state
    objects,             \* AbandonedEventEngine._objects
    now_ts,              \* ts_ms of the last processed detections message
    last_events,         \* list returned by the last process() call
    prev_roi_event,      \* history: last roi_enter/roi_exit per <<track, region>> before the last call
    dwell_count,         \* history: roi_dwell events per <<track, region>> since its last roi_enter/roi_exit
    prev_emit_ts,        \* history: timestamps of the emissions before the last call, per cooldown scope
    window_emits,        \* history: abandoned_object events per object in its current abandonment window
    seen_ts              \* history: ts_ms of the last frame that carried the track, or NoneInt

\* The directory config.assets_dir of the vision service, which the
\* connections of the service and other processes share.
VARIABLES
    assets_dir,          \* the clip directories: name -> st_mtime in seconds
    current_clip_dir,    \* the clip directory written last by this connection, or None
    pruned               \* history: the directories the last _prune_asset_dirs removed

asset_vars == <<assets_dir, current_clip_dir, pruned>>

engine_vars == <<roi_settings, motion_settings, collision_settings,
                 abandoned_settings, tracks, motion_tracks, pair_state,
                 objects, now_ts, last_events, prev_roi_event, dwell_count,
                 prev_emit_ts, window_emits, seen_ts>>

\* ------------------------------------------------------------------------
\* ROI / line engine (events.py)
\* ------------------------------------------------------------------------
NewTrackEventState(ts_ms) ==
    [regions_inside |-> EmptyDict,
     region_enter_ts_ms |-> EmptyDict,
     region_dwell_emitted |-> EmptyDict,
     region_pending_inside |-> EmptyDict,
     region_pending_since_ts_ms |-> EmptyDict,
     line_side_state |-> EmptyDict,
     last_seen_ts_ms |-> ts_ms]

RoiEvent(name, ts_ms, track_id, region_name) ==
    [name |-> name, ts_ms |-> ts_ms, severity |-> "low", track_id |-> track_id,
     data |-> [roi |-> region_name]]

DwellEvent(ts_ms, track_id, region_name, dwell_ms) ==
    [name |-> "roi_dwell", ts_ms |-> ts_ms, severity |-> "medium",
     track_id |-> track_id, data |-> [roi |-> region_name, dwell_ms |-> dwell_ms]]

\* The commit of a transition: the event and the enter/dwell bookkeeping
\* (events.py 161-186 and 204-231).  acc = [state, events].
CommitTransition(acc, rs, region_name, track_id, ts_ms, inside_now) ==
    LET s == acc.state IN
    IF inside_now
    THEN [state |-> [s EXCEPT
                       !.region_enter_ts_ms = Put(@, region_name, ts_ms),
                       !.region_dwell_emitted = Put(@, region_name, FALSE)],
          events |-> Append(acc.events, RoiEvent("roi_enter", ts_ms, track_id, region_name))]
    ELSE [state |-> [s EXCEPT
                       !.region_enter_ts_ms = Pop(@, region_name),
                       !.region_dwell_emitted = Pop(@, region_name)],
          events |-> Append(acc.events, RoiEvent("roi_exit", ts_ms, track_id, region_name))]

ClearPending(s, region_name) ==
    [s EXCEPT !.region_pending_inside = Pop(@, region_name),
              !.region_pending_since_ts_ms = Pop(@, region_name)]

\* Branch min_transition_ms <= 0 (events.py 157-186).
ImmediateTransition(acc, rs, region_name, track_id, ts_ms, inside_now) ==
    LET committed_inside == Get(acc.state.regions_inside, region_name, FALSE)
        cleared == [acc EXCEPT !.state = ClearPending(@, region_name)]
        after == IF inside_now /\ ~committed_inside
                   THEN CommitTransition(cleared, rs, region_name, track_id, ts_ms, TRUE)
                 ELSE IF committed_inside /\ ~inside_now
                   THEN CommitTransition(cleared, rs, region_name, track_id, ts_ms, FALSE)
                 ELSE cleared
    IN  [after EXCEPT !.state.regions_inside = Put(@, region_name, inside_now)]

\* DebouncedTransition that keeps the pending state when the observation
\* matches the committed value.
DebouncedTransition_KeepsPending(acc, rs, region_name, track_id, ts_ms, inside_now) ==
    LET s == acc.state
        committed_inside == Get(s.regions_inside, region_name, FALSE)
        has_pending_inside == region_name \in DOMAIN s.region_pending_inside
        pending_since_ts_ms == Get(s.region_pending_since_ts_ms, region_name, NoneInt)
    IN
    IF inside_now = committed_inside
    THEN acc
    ELSE IF ~has_pending_inside \/ s.region_pending_inside[region_name] # inside_now
    THEN [acc EXCEPT !.state.region_pending_inside = Put(@, region_name, inside_now),
                     !.state.region_pending_since_ts_ms = Put(@, region_name, ts_ms)]
    ELSE IF pending_since_ts_ms = NoneInt
    THEN [acc EXCEPT !.state.region_pending_since_ts_ms = Put(@, region_name, ts_ms)]
    ELSE LET elapsed_ms == Max(ts_ms - pending_since_ts_ms, 0) IN
         IF elapsed_ms >= rs.transition_min_ms
         THEN LET c == CommitTransition(acc, rs, region_name, track_id, ts_ms, inside_now)
              IN  [c EXCEPT !.state = ClearPending(
                               [@ EXCEPT !.regions_inside = Put(@, region_name, inside_now)],
                               region_name)]
         ELSE acc

\* Branch min_transition_ms > 0 (events.py 187-231).
DebouncedTransition(acc, rs, region_name, track_id, ts_ms, inside_now) ==
    LET s == acc.state
        committed_inside == Get(s.regions_inside, region_name, FALSE)
        has_pending_inside == region_name \in DOMAIN s.region_pending_inside
        pending_since_ts_ms == Get(s.region_pending_since_ts_ms, region_name, NoneInt)
    IN
    IF inside_now = committed_inside
    THEN [acc EXCEPT !.state = ClearPending(@, region_name)]
    ELSE IF ~has_pending_inside \/ s.region_pending_inside[region_name] # inside_now
    THEN [acc EXCEPT !.state.region_pending_inside = Put(@, region_name, inside_now),
                     !.state.region_pending_since_ts_ms = Put(@, region_name, ts_ms)]
    ELSE IF pending_since_ts_ms = NoneInt
    THEN [acc EXCEPT !.state.region_pending_since_ts_ms = Put(@, region_name, ts_ms)]
    ELSE LET elapsed_ms == Max(ts_ms - pending_since_ts_ms, 0) IN
         IF elapsed_ms >= rs.transition_min_ms
         THEN LET c == CommitTransition(acc, rs, region_name, track_id, ts_ms, inside_now)
              IN  [c EXCEPT !.state = ClearPending(
                               [@ EXCEPT !.regions_inside = Put(@, region_name, inside_now)],
                               region_name)]
         ELSE acc

\* DwellStep that forgets to record that the dwell was emitted.
DwellStep_NoFlag(acc, rs, region_name, track_id, ts_ms) ==
    LET s == acc.state
        committed_inside == Get(s.regions_inside, region_name, FALSE)
        enter_ts_ms == Get(s.region_enter_ts_ms, region_name, ts_ms)
        dwell_ms == Max(ts_ms - enter_ts_ms, 0)
    IN
    IF ~committed_inside THEN acc
    ELSE IF ~Get(s.region_dwell_emitted, region_name, FALSE)
            /\ dwell_ms >= dwell_threshold_ms_for_region(rs, region_name)
    THEN [state |-> [s EXCEPT !.region_enter_ts_ms = Put(@, region_name, enter_ts_ms)],
          events |-> Append(acc.events, DwellEvent(ts_ms, track_id, region_name, dwell_ms))]
    ELSE [acc EXCEPT !.state.region_enter_ts_ms = Put(@, region_name, enter_ts_ms)]

\* Dwell part of the region loop body (events.py 233-254).
DwellStep(acc, rs, region_name, track_id, ts_ms) ==
    LET s == acc.state
        committed_inside == Get(s.regions_inside, region_name, FALSE)
    IN
    IF ~committed_inside THEN acc
    ELSE
      LET had_enter == region_name \in DOMAIN s.region_enter_ts_ms
          enter_ts_ms == IF had_enter THEN s.region_enter_ts_ms[region_name] ELSE ts_ms
          s1 == IF had_enter THEN s
                ELSE [s EXCEPT !.region_enter_ts_ms = Put(@, region_name, ts_ms)]
          dwell_emitted == Get(s1.region_dwell_emitted, region_name, FALSE)
          dwell_threshold_ms == dwell_threshold_ms_for_region(rs, region_name)
          dwell_ms == Max(ts_ms - enter_ts_ms, 0)
      IN
      IF ~dwell_emitted /\ dwell_ms >= dwell_threshold_ms
      THEN [state |-> [s1 EXCEPT !.region_dwell_emitted = Put(@, region_name, TRUE)],
            events |-> Append(acc.events, DwellEvent(ts_ms, track_id, region_name, dwell_ms))]
      ELSE [acc EXCEPT !.state = s1]

\* One iteration of the loop over regions (events.py 153-254).
RegionStep(acc, rs, region_name, track_id, ts_ms, point) ==
    LET inside_now == point_in_region(point, Regions[region_name])
        t == IF rs.transition_min_ms <= 0
             THEN ImmediateTransition(acc, rs, region_name, track_id, ts_ms, inside_now)
             ELSE DebouncedTransition(acc, rs, region_name, track_id, ts_ms, inside_now)
    IN  DwellStep(t, rs, region_name, track_id, ts_ms)

RECURSIVE RegionLoop(_, _, _, _, _, _)
RegionLoop(acc, rs, i, track_id, ts_ms, point) ==
    IF i > Len(rs.regions) THEN acc
    ELSE RegionLoop(RegionStep(acc, rs, rs.regions[i], track_id, ts_ms, point),
                    rs, i + 1, track_id, ts_ms, point)

\* DetectionEventEngine._append_region_events
_append_region_events(acc, rs, track_id, ts_ms, point) ==
    RegionLoop(acc, rs, 1, track_id, ts_ms, point)

\* f"{previous_side}->{current_side}"
FormatDirection(previous_side, current_side) ==
    CASE previous_side = "A" /\ current_side = "B" -> "A->B"
      [] previous_side = "B" /\ current_side = "A" -> "B->A"
      [] previous_side = "A" /\ current_side = "A" -> "A->A"
      [] previous_side = "B" /\ current_side = "B" -> "B->B"

LineCrossEvent(ts_ms, track_id, line_name, previous_side, current_side) ==
    [name |-> "line_cross", ts_ms |-> ts_ms, severity |-> "medium",
     track_id |-> track_id,
     data |-> [line |-> line_name,
               direction |-> FormatDirection(previous_side, current_side)]]

\* LineStep that records an undefined side as well.
LineStep_RecordsUndefined(acc, line_name, track_id, ts_ms, point) ==
    LET current_side == line_side(point, Lines[line_name])
        previous_side == Get(acc.state.line_side_state, line_name, None)
        ev == IF previous_side # None /\ current_side # None /\ previous_side # current_side
              THEN Append(acc.events,
                          LineCrossEvent(ts_ms, track_id, line_name, previous_side, current_side))
              ELSE acc.events
        st == [acc.state EXCEPT !.line_side_state = Put(@, line_name, current_side)]
    IN  [state |-> st, events |-> ev]

\* One iteration of the loop over lines (events.py 265-281).
LineStep(acc, line_name, track_id, ts_ms, point) ==
    LET current_side == line_side(point, Lines[line_name])
        previous_side == Get(acc.state.line_side_state, line_name, None)
        ev == IF previous_side # None /\ current_side # None /\ previous_side # current_side
              THEN Append(acc.events,
                          LineCrossEvent(ts_ms, track_id, line_name, previous_side, current_side))
              ELSE acc.events
        st == IF current_side # None
              THEN [acc.state EXCEPT !.line_side_state = Put(@, line_name, current_side)]
              ELSE acc.state
    IN  [state |-> st, events |-> ev]

RECURSIVE LineLoop(_, _, _, _, _, _)
LineLoop(acc, rs, i, track_id, ts_ms, point) ==
    IF i > Len(rs.lines) THEN acc
    ELSE LineLoop(LineStep(acc, rs.lines[i], track_id, ts_ms, point),
                  rs, i + 1, track_id, ts_ms, point)

\* DetectionEventEngine._append_line_events
_append_line_events(acc, rs, track_id, ts_ms, point) ==
    LineLoop(acc, rs, 1, track_id, ts_ms, point)

\* A dict without the entries whose last_seen_ts_ms is more than ttl old.
EvictStale(d, now_ts_ms, ttl) ==
    [k \in {x \in DOMAIN d : ~(now_ts_ms - d[x].last_seen_ts_ms > ttl)} |-> d[k]]

\* _evict_stale_track_state that never evicts.
_evict_stale_track_state_Never(tr, now_ts_ms) == tr

\* DetectionEventEngine._evict_stale_track_state
_evict_stale_track_state(tr, now_ts_ms) == EvictStale(tr, now_ts_ms, TRACK_STATE_TTL_MS)

\* ------------------------------------------------------------------------
\* Motion engine (motion.py)
\* ------------------------------------------------------------------------
RECURSIVE GCD(_, _)
GCD(a, b) == IF b = 0 THEN a ELSE GCD(b, a % b)

\* A non-negative rational num/den in lowest terms (den > 0).
Rat(num, den) == LET g == GCD(num, den) IN [num |-> num \div g, den |-> den \div g]

RECURSIVE ISqrtIter(_, _, _)
ISqrtIter(n, lo, hi) ==
    IF lo >= hi THEN lo
    ELSE LET mid == (lo + hi + 1) \div 2
         IN  IF mid * mid <= n THEN ISqrtIter(n, mid, hi) ELSE ISqrtIter(n, lo, mid - 1)

\* math.hypot on integer coordinates; exact whenever the distance is an
\* integer, which holds for all points the specifications draw.
hypot(dx, dy) == ISqrtIter(dx * dx + dy * dy, 0, Min(dx * dx + dy * dy, 40000))

MotionSample(ts_ms, point) == [ts_ms |-> ts_ms, x |-> point[1], y |-> point[2]]

\* None as a speed.
NoneSpeed == [num |-> NoneInt, den |-> 1]

\* _speed_px_s: None or the rational distance_px / (dt_ms / 1000).
_speed_px_s(a, b) ==
    LET dt_ms == b.ts_ms - a.ts_ms IN
    IF dt_ms <= 0 THEN NoneSpeed
    ELSE Rat(hypot(b.x - a.x, b.y - a.y) * 1000, dt_ms)

_latest_speed_px_s(history) ==
    IF Len(history) < 2 THEN NoneSpeed
    ELSE _speed_px_s(history[Len(history) - 1], history[Len(history)])

_previous_speed_px_s(history) ==
    IF Len(history) < 3 THEN NoneSpeed
    ELSE _speed_px_s(history[Len(history) - 2], history[Len(history) - 1])

\* speed >= threshold, speed <= threshold, |a - b| >= threshold on rationals.
RatGe(r, thr) == r.num >= thr * r.den
RatLe(r, thr) == r.num <= thr * r.den
RatAbsDiffGe(a, b, thr) == Abs(a.num * b.den - b.num * a.den) >= thr * a.den * b.den

\* deque(maxlen=history_frames).append
DequeAppend_Unbounded(history, sample, maxlen) == Append(history, sample)
DequeAppend(history, sample, maxlen) ==
    LET h == Append(history, sample)
    IN  IF Len(h) > maxlen THEN Tail(h) ELSE h

NewMotionTrackState(ts_ms) ==
    [history |-> <<>>, stop_start_ts_ms |-> NoneInt, stop_emitted |-> FALSE,
     last_event_ts_ms |-> EmptyDict, last_seen_ts_ms |-> ts_ms]

\* MotionEventEngine._can_emit
Motion_can_emit(ms, state, event_name, ts_ms) ==
    LET cooldown_ms == ms.event_cooldown_ms IN
    IF cooldown_ms <= 0 THEN TRUE
    ELSE IF event_name \notin DOMAIN state.last_event_ts_ms THEN TRUE
    ELSE (ts_ms - state.last_event_ts_ms[event_name]) >= cooldown_ms

\* MotionEventEngine._mark_emitted
Motion_mark_emitted(state, event_name, ts_ms) ==
    [state EXCEPT !.last_event_ts_ms = Put(@, event_name, ts_ms)]

SuddenMotionEvent(ts_ms, track_id, speed_now) ==
    [name |-> "sudden_motion", ts_ms |-> ts_ms, severity |-> "medium",
     track_id |-> track_id, data |-> [speed_px_s |-> speed_now]]

TrackStopEvent(ts_ms, track_id, stopped_ms) ==
    [name |-> "track_stop", ts_ms |-> ts_ms, severity |-> "low",
     track_id |-> track_id, data |-> [stopped_ms |-> stopped_ms]]

\* The sudden_motion part of process_sample (motion.py 213-229).
\* acc = [state, events].
SuddenMotionStep(acc, ms, track_id, ts_ms, speed_now, speed_prev) ==
    LET speed_threshold == ms.sudden_motion_speed_px_s
        fast == \/ RatGe(speed_now, speed_threshold)
                \/ IF speed_prev # NoneSpeed
                   THEN RatAbsDiffGe(speed_now, speed_prev, speed_threshold)
                   ELSE 0 >= speed_threshold
    IN
    IF fast /\ Motion_can_emit(ms, acc.state, "sudden_motion", ts_ms)
    THEN [state |-> Motion_mark_emitted(acc.state, "sudden_motion", ts_ms),
          events |-> Append(acc.events, SuddenMotionEvent(ts_ms, track_id, speed_now))]
    ELSE acc

\* The stop part of process_sample with a fast sample that keeps stop_emitted.
StopStep_KeepsEmitted(acc, ms, track_id, ts_ms, speed_now) ==
    IF RatLe(speed_now, ms.stop_speed_px_s)
    THEN LET s1 == IF acc.state.stop_start_ts_ms = NoneInt
                   THEN [acc.state EXCEPT !.stop_start_ts_ms = ts_ms]
                   ELSE acc.state
             stopped_ms == Max(ts_ms - s1.stop_start_ts_ms, 0)
         IN  IF /\ ~s1.stop_emitted
                /\ stopped_ms >= ms.stop_duration_ms
                /\ Motion_can_emit(ms, s1, "track_stop", ts_ms)
             THEN [state |-> Motion_mark_emitted([s1 EXCEPT !.stop_emitted = TRUE],
                                                 "track_stop", ts_ms),
                   events |-> Append(acc.events, TrackStopEvent(ts_ms, track_id, stopped_ms))]
             ELSE [acc EXCEPT !.state = s1]
    ELSE [acc EXCEPT !.state.stop_start_ts_ms = NoneInt]

\* The stop part of process_sample (motion.py 231-254).
StopStep(acc, ms, track_id, ts_ms, speed_now) ==
    IF RatLe(speed_now, ms.stop_speed_px_s)
    THEN LET s1 == IF acc.state.stop_start_ts_ms = NoneInt
                   THEN [acc.state EXCEPT !.stop_start_ts_ms = ts_ms]
                   ELSE acc.state
             stopped_ms == Max(ts_ms - s1.stop_start_ts_ms, 0)
         IN  IF /\ ~s1.stop_emitted
                /\ stopped_ms >= ms.stop_duration_ms
                /\ Motion_can_emit(ms, s1, "track_stop", ts_ms)
             THEN [state |-> Motion_mark_emitted([s1 EXCEPT !.stop_emitted = TRUE],
                                                 "track_stop", ts_ms),
                   events |-> Append(acc.events, TrackStopEvent(ts_ms, track_id, stopped_ms))]
             ELSE [acc EXCEPT !.state = s1]
    ELSE [acc EXCEPT !.state.stop_start_ts_ms = NoneInt, !.state.stop_emitted = FALSE]

\* MotionEventEngine.process_sample: [tracks, events] after one sample.
process_sample(mt, ms, track_id, ts_ms, point) ==
    IF ~ms.enabled THEN [tracks |-> mt, events |-> <<>>]
    ELSE
      LET s0 == IF track_id \in DOMAIN mt THEN mt[track_id] ELSE NewMotionTrackState(ts_ms)
          s1 == [s0 EXCEPT !.last_seen_ts_ms = ts_ms,
                           !.history = DequeAppend(@, MotionSample(ts_ms, point),
                                                   ms.history_frames)]
          speed_now == _latest_speed_px_s(s1.history)
          speed_prev == _previous_speed_px_s(s1.history)
      IN
      IF speed_now = NoneSpeed
      THEN [tracks |-> Put(mt, track_id, s1), events |-> <<>>]
      ELSE LET a == SuddenMotionStep([state |-> s1, events |-> <<>>], ms, track_id,
                                     ts_ms, speed_now, speed_prev)
               b == StopStep(a, ms, track_id, ts_ms, speed_now)
           IN  [tracks |-> Put(mt, track_id, b.state), events |-> b.events]

\* MotionEventEngine.evict_stale
Motion_evict_stale(mt, now_ts_ms) == EvictStale(mt, now_ts_ms, TRACK_STATE_TTL_MS)

\* ------------------------------------------------------------------------
\* Collision engine (collision.py)
\* ------------------------------------------------------------------------
\* Class names in lexicographic order (Python str comparison).
ClassOrder == <<"backpack", "car", "person">>
ClassIndex(c) == CHOOSE i \in 1..Len(ClassOrder) : ClassOrder[i] = c

_canonical_class_pair(a_class, b_class) ==
    IF ClassIndex(a_class) <= ClassIndex(b_class)
    THEN <<a_class, b_class>> ELSE <<b_class, a_class>>

_pair_key(a_track_id, b_track_id) ==
    IF a_track_id <= b_track_id
    THEN <<a_track_id, b_track_id>> ELSE <<b_track_id, a_track_id>>

_distance_px(a, b) == hypot(a[1] - b[1], a[2] - b[2])

NewPairState(ts_ms) ==
    [last_distance_px |-> NoneInt, last_ts_ms |-> NoneInt,
     last_event_ts_ms |-> NoneInt, last_seen_ts_ms |-> ts_ms]

\* CollisionEventEngine._is_eligible_pair
_is_eligible_pair(cs, a_class, b_class) ==
    _canonical_class_pair(a_class, b_class) \in cs.pairs

\* CollisionEventEngine._ordered_samples
_ordered_samples(sample_a, sample_b) ==
    IF sample_a.track_id <= sample_b.track_id
    THEN <<sample_a, sample_b>> ELSE <<sample_b, sample_a>>

\* CollisionEventEngine._can_emit
Collision_can_emit(cs, state, ts_ms) ==
    LET cooldown_ms == cs.pair_cooldown_ms IN
    IF cooldown_ms <= 0 THEN TRUE
    ELSE IF state.last_event_ts_ms = NoneInt THEN TRUE
    ELSE (ts_ms - state.last_event_ts_ms) >= cooldown_ms

NearCollisionEvent(ts_ms, sample_a, sample_b, distance_px, closing_speed_px_s) ==
    [name |-> "near_collision", ts_ms |-> ts_ms, severity |-> "high",
     track_id |-> NoneInt,
     data |-> [a_track_id |-> sample_a.track_id, b_track_id |-> sample_b.track_id,
               a_class |-> sample_a.class_name, b_class |-> sample_b.class_name,
               distance_px |-> distance_px,
               closing_speed_px_s |-> closing_speed_px_s]]

\* PairStep that records the distance and the time only when it emits.
PairStep_RecordsOnEmit(acc, cs, ts_ms, first_sample, second_sample) ==
    IF first_sample.track_id = second_sample.track_id THEN acc
    ELSE IF ~_is_eligible_pair(cs, first_sample.class_name, second_sample.class_name) THEN acc
    ELSE
      LET ord == _ordered_samples(first_sample, second_sample)
          sample_a == ord[1]
          sample_b == ord[2]
          pair_key == _pair_key(sample_a.track_id, sample_b.track_id)
          s0 == IF pair_key \in DOMAIN acc.pairs THEN acc.pairs[pair_key]
                ELSE NewPairState(ts_ms)
          s1 == [s0 EXCEPT !.last_seen_ts_ms = ts_ms]
          distance_px == _distance_px(sample_a.point, sample_b.point)
          closing_speed_px_s ==
              IF s1.last_distance_px # NoneInt /\ s1.last_ts_ms # NoneInt
                 /\ ts_ms - s1.last_ts_ms > 0
              THEN Rat((s1.last_distance_px - distance_px) * 1000, ts_ms - s1.last_ts_ms)
              ELSE Rat(0, 1)
          emit == /\ distance_px <= cs.distance_px
                  /\ RatGe(closing_speed_px_s, cs.closing_speed_px_s)
                  /\ Collision_can_emit(cs, s1, ts_ms)
          s2 == IF emit THEN [s1 EXCEPT !.last_event_ts_ms = ts_ms] ELSE s1
          s3 == IF emit
                THEN [s2 EXCEPT !.last_distance_px = distance_px, !.last_ts_ms = ts_ms]
                ELSE s2
      IN  [pairs |-> Put(acc.pairs, pair_key, s3),
           events |-> IF emit
                      THEN Append(acc.events,
                                  NearCollisionEvent(ts_ms, sample_a, sample_b,
                                                     distance_px, closing_speed_px_s))
                      ELSE acc.events]

\* Body of the double loop of process_samples for one index pair
\* (collision.py 197-246).  acc = [pairs, events].
PairStep(acc, cs, ts_ms, first_sample, second_sample) ==
    IF first_sample.track_id = second_sample.track_id THEN acc
    ELSE IF ~_is_eligible_pair(cs, first_sample.class_name, second_sample.class_name) THEN acc
    ELSE
      LET ord == _ordered_samples(first_sample, second_sample)
          sample_a == ord[1]
          sample_b == ord[2]
          pair_key == _pair_key(sample_a.track_id, sample_b.track_id)
          s0 == IF pair_key \in DOMAIN acc.pairs THEN acc.pairs[pair_key]
                ELSE NewPairState(ts_ms)
          s1 == [s0 EXCEPT !.last_seen_ts_ms = ts_ms]
          distance_px == _distance_px(sample_a.point, sample_b.point)
          closing_speed_px_s ==
              IF s1.last_distance_px # NoneInt /\ s1.last_ts_ms # NoneInt
                 /\ ts_ms - s1.last_ts_ms > 0
              THEN Rat((s1.last_distance_px - distance_px) * 1000, ts_ms - s1.last_ts_ms)
              ELSE Rat(0, 1)
          emit == /\ distance_px <= cs.distance_px
                  /\ RatGe(closing_speed_px_s, cs.closing_speed_px_s)
                  /\ Collision_can_emit(cs, s1, ts_ms)
          s2 == IF emit THEN [s1 EXCEPT !.last_event_ts_ms = ts_ms] ELSE s1
          s3 == [s2 EXCEPT !.last_distance_px = distance_px, !.last_ts_ms = ts_ms]
      IN  [pairs |-> Put(acc.pairs, pair_key, s3),
           events |-> IF emit
                      THEN Append(acc.events,
                                  NearCollisionEvent(ts_ms, sample_a, sample_b,
                                                     distance_px, closing_speed_px_s))
                      ELSE acc.events]

RECURSIVE PairLoop(_, _, _, _, _, _)
PairLoop(acc, cs, ts_ms, samples, index, next_index) ==
    IF index > Len(samples) THEN acc
    ELSE IF next_index > Len(samples)
    THEN PairLoop(acc, cs, ts_ms, samples, index + 1, index + 2)
    ELSE PairLoop(PairStep(acc, cs, ts_ms, samples[index], samples[next_index]),
                  cs, ts_ms, samples, index, next_index + 1)

\* CollisionEventEngine.process_samples: [pairs, events].
Collision_process_samples(ps, cs, ts_ms, samples) ==
    IF ~cs.enabled THEN [pairs |-> ps, events |-> <<>>]
    ELSE PairLoop([pairs |-> ps, events |-> <<>>], cs, ts_ms, samples, 1, 2)

\* CollisionEventEngine.evict_stale
Collision_evict_stale(ps, now_ts_ms) == EvictStale(ps, now_ts_ms, PAIR_STATE_TTL_MS)

\* ------------------------------------------------------------------------
\* Abandoned-object engine (abandoned.py)
\* ------------------------------------------------------------------------
\* None as a point.
NonePoint == <<>>

NewObjectTrackState(class_name) ==
    [class_name |-> class_name,
     last_seen_ts_ms |-> 0,
     last_point |-> NonePoint,
     association_candidate_person_id |-> NoneInt,
     association_candidate_since_ms |-> NoneInt,
     associated_person_id |-> NoneInt,
     associated_since_ms |-> NoneInt,
     abandon_started_ts_ms |-> NoneInt,
     abandon_person_id |-> NoneInt,
     abandon_reference_point |-> NonePoint,
     abandoned_emitted |-> FALSE,
     last_event_ts_ms |-> NoneInt]

\* AbandonedEventEngine._is_candidate_object
_is_candidate_object(as, sample) == sample.class_name \in as.object_classes

\* AbandonedEventEngine._is_inside_configured_roi
_is_inside_configured_roi(as, sample) ==
    IF as.roi = None THEN TRUE
    ELSE IF as.roi \notin DOMAIN Regions THEN FALSE
    ELSE point_in_region(sample.point, Regions[as.roi])

\* AbandonedEventEngine._find_nearest_person: <<person id, distance>>.
RECURSIVE NearestPersonLoop(_, _, _, _)
NearestPersonLoop(sample, person_samples, i, best) ==
    IF i > Len(person_samples) THEN best
    ELSE LET p == person_samples[i]
             distance_px == _distance_px(sample.point, p.point)
         IN  IF p.track_id = sample.track_id
             THEN NearestPersonLoop(sample, person_samples, i + 1, best)
             ELSE IF best[2] = NoneInt \/ distance_px < best[2]
             THEN NearestPersonLoop(sample, person_samples, i + 1, <<p.track_id, distance_px>>)
             ELSE NearestPersonLoop(sample, person_samples, i + 1, best)

_find_nearest_person(sample, person_samples) ==
    NearestPersonLoop(sample, person_samples, 1, <<NoneInt, NoneInt>>)

\* AbandonedEventEngine._handle_association_candidate
_handle_association_candidate(as, state, person_track_id, ts_ms) ==
    IF state.associated_person_id = person_track_id THEN state
    ELSE IF state.association_candidate_person_id # person_track_id
    THEN [state EXCEPT !.association_candidate_person_id = person_track_id,
                       !.association_candidate_since_ms = ts_ms]
    ELSE IF state.association_candidate_since_ms = NoneInt
    THEN [state EXCEPT !.association_candidate_since_ms = ts_ms]
    ELSE IF ts_ms - state.association_candidate_since_ms < as.associate_min_ms
    THEN state
    ELSE [state EXCEPT !.associated_person_id = person_track_id,
                       !.associated_since_ms = state.association_candidate_since_ms,
                       !.association_candidate_person_id = NoneInt,
                       !.association_candidate_since_ms = NoneInt,
                       !.abandoned_emitted = FALSE]

\* A reset that clears abandoned_emitted and keeps the abandonment window.
_reset_abandonment_KeepsWindow(state) ==
    [state EXCEPT !.abandoned_emitted = FALSE]

\* AbandonedEventEngine._reset_abandonment
_reset_abandonment(state) ==
    [state EXCEPT !.abandon_started_ts_ms = NoneInt,
                  !.abandon_person_id = NoneInt,
                  !.abandon_reference_point = NonePoint,
                  !.abandoned_emitted = FALSE]

\* AbandonedEventEngine._can_emit
Abandoned_can_emit(as, state, ts_ms) ==
    LET cooldown_ms == as.event_cooldown_ms IN
    IF cooldown_ms <= 0 THEN TRUE
    ELSE IF state.last_event_ts_ms = NoneInt THEN TRUE
    ELSE (ts_ms - state.last_event_ts_ms) >= cooldown_ms

AbandonedEvent(as, ts_ms, sample, state, abandon_ms) ==
    [name |-> "abandoned_object", ts_ms |-> ts_ms, severity |-> "high",
     track_id |-> sample.track_id,
     data |-> [object_track_id |-> sample.track_id,
               object_class |-> state.class_name,
               person_track_id |-> state.abandon_person_id,
               roi |-> as.roi,
               abandon_ms |-> abandon_ms]]

\* Marking an emission without setting abandoned_emitted.
MarkAbandonedEmitted_NoFlag(state, ts_ms) ==
    [state EXCEPT !.last_event_ts_ms = ts_ms]

\* Marking an emission on the object state (abandoned.py 301-302).
MarkAbandonedEmitted(state, ts_ms) ==
    [state EXCEPT !.abandoned_emitted = TRUE, !.last_event_ts_ms = ts_ms]

\* The part of the sample loop after "no person in range"
\* (abandoned.py 256-302): <<state, events>>.
NoPersonStep(as, s1, events, ts_ms, sample) ==
    LET s2 == [s1 EXCEPT !.association_candidate_person_id = NoneInt,
                         !.association_candidate_since_ms = NoneInt]
        s3 == IF s2.associated_person_id # NoneInt /\ s2.abandon_started_ts_ms = NoneInt
              THEN [s2 EXCEPT !.abandon_started_ts_ms = ts_ms,
                              !.abandon_person_id = s2.associated_person_id,
                              !.abandon_reference_point = sample.point]
              ELSE s2
        s4 == [s3 EXCEPT !.associated_person_id = NoneInt, !.associated_since_ms = NoneInt]
        abandon_ms == Max(ts_ms - s4.abandon_started_ts_ms, 0)
    IN
    IF s4.abandon_started_ts_ms = NoneInt THEN <<s4, events>>
    ELSE IF /\ s4.abandon_reference_point # NonePoint
            /\ as.stationary_max_move_px # NoneInt
            /\ _distance_px(sample.point, s4.abandon_reference_point)
                 > as.stationary_max_move_px
    THEN <<_reset_abandonment(s4), events>>
    ELSE IF abandon_ms < as.abandon_delay_ms THEN <<s4, events>>
    ELSE IF s4.abandoned_emitted THEN <<s4, events>>
    ELSE IF ~Abandoned_can_emit(as, s4, ts_ms) THEN <<s4, events>>
    ELSE <<MarkAbandonedEmitted(s4, ts_ms),
           Append(events, AbandonedEvent(as, ts_ms, sample, s4, abandon_ms))>>

\* Body of the sample loop of process_samples (abandoned.py 227-302).
\* acc = [objects, events].
ObjectStep(acc, as, ts_ms, sample, person_samples) ==
    IF ~_is_candidate_object(as, sample) THEN acc
    ELSE IF ~_is_inside_configured_roi(as, sample)
    THEN [acc EXCEPT !.objects = Pop(@, sample.track_id)]
    ELSE
      LET s0 == IF sample.track_id \in DOMAIN acc.objects THEN acc.objects[sample.track_id]
                ELSE NewObjectTrackState(sample.class_name)
          s1 == [s0 EXCEPT !.class_name = sample.class_name,
                           !.last_seen_ts_ms = ts_ms,
                           !.last_point = sample.point]
          nearest == _find_nearest_person(sample, person_samples)
          has_near_person == /\ nearest[1] # NoneInt
                             /\ nearest[2] # NoneInt
                             /\ nearest[2] <= as.associate_max_distance_px
      IN
      IF has_near_person
      THEN [acc EXCEPT !.objects =
              Put(@, sample.track_id,
                  _reset_abandonment(_handle_association_candidate(as, s1, nearest[1], ts_ms)))]
      ELSE LET r == NoPersonStep(as, s1, acc.events, ts_ms, sample)
           IN  [objects |-> Put(acc.objects, sample.track_id, r[1]), events |-> r[2]]

RECURSIVE ObjectLoop(_, _, _, _, _, _)
ObjectLoop(acc, as, ts_ms, samples, i, person_samples) ==
    IF i > Len(samples) THEN acc
    ELSE ObjectLoop(ObjectStep(acc, as, ts_ms, samples[i], person_samples),
                    as, ts_ms, samples, i + 1, person_samples)

\* AbandonedEventEngine.evict_stale
Abandoned_evict_stale(ob, now_ts_ms) == EvictStale(ob, now_ts_ms, TRACK_STATE_TTL_MS)

\* AbandonedEventEngine.process_samples: [objects, events].
Abandoned_process_samples(ob, as, ts_ms, samples) ==
    IF ~as.enabled THEN [objects |-> ob, events |-> <<>>]
    ELSE LET person_samples == SelectSeq(samples, LAMBDA x : x.class_name = PERSON_CLASS_NAME)
             r == ObjectLoop([objects |-> ob, events |-> <<>>], as, ts_ms, samples, 1,
                             person_samples)
         IN  [objects |-> Abandoned_evict_stale(r.objects, ts_ms), events |-> r.events]

\* ------------------------------------------------------------------------
\* DetectionEventEngine.process (events.py 42-140)
\* ------------------------------------------------------------------------
\* The two continue statements of the loop over detections with the second
\* one left out.
SkipsDetection_OnlyNone(seen, track_id) == track_id = NoneInt

\* The two continue statements of the loop over detections (events.py 57-62).
SkipsDetection(seen, track_id) == track_id = NoneInt \/ track_id \in seen

\* Body of the loop over detections (events.py 56-115).
\* acc = [tracks, motion, events, seen, collision_samples, abandoned_samples].
DetectionStep(acc, rs, ms, cs, as, ts_ms, detection) ==
    LET track_id == detection.track_id IN
    IF SkipsDetection(acc.seen, track_id) THEN acc
    ELSE
      LET point == box_centroid(detection.box)
          sample == [track_id |-> track_id, class_name |-> detection.name, point |-> point]
          csamples == IF cs.enabled THEN Append(acc.collision_samples, sample)
                      ELSE acc.collision_samples
          asamples == IF as.enabled THEN Append(acc.abandoned_samples, sample)
                      ELSE acc.abandoned_samples
          state0 == IF track_id \in DOMAIN acc.tracks THEN acc.tracks[track_id]
                    ELSE NewTrackEventState(ts_ms)
          state1 == [state0 EXCEPT !.last_seen_ts_ms = ts_ms]
          roi == IF rs.enabled
                 THEN _append_line_events(
                        _append_region_events([state |-> state1, events |-> acc.events],
                                              rs, track_id, ts_ms, point),
                        rs, track_id, ts_ms, point)
                 ELSE [state |-> state1, events |-> acc.events]
          tracks1 == IF rs.enabled THEN Put(acc.tracks, track_id, roi.state) ELSE acc.tracks
          mot == IF ms.enabled
                 THEN process_sample(acc.motion, ms, track_id, ts_ms, point)
                 ELSE [tracks |-> acc.motion, events |-> <<>>]
      IN  [tracks |-> tracks1,
           motion |-> mot.tracks,
           events |-> roi.events \o mot.events,
           seen |-> acc.seen \cup {track_id},
           collision_samples |-> csamples,
           abandoned_samples |-> asamples]

RECURSIVE DetectionLoop(_, _, _, _, _, _, _, _)
DetectionLoop(acc, rs, ms, cs, as, ts_ms, detections, i) ==
    IF i > Len(detections) THEN acc
    ELSE DetectionLoop(DetectionStep(acc, rs, ms, cs, as, ts_ms, detections[i]),
                       rs, ms, cs, as, ts_ms, detections, i + 1)

\* The engine state: [tracks, motion, pairs, objects].
EngineState == [tracks |-> tracks, motion |-> motion_tracks,
                pairs |-> pair_state, objects |-> objects]

\* DetectionEventEngine.process: [tracks, motion, pairs, objects, events].
process(es, rs, ms, cs, as, ts_ms, detections) ==
    IF ~rs.enabled /\ ~ms.enabled /\ ~cs.enabled /\ ~as.enabled
    THEN [tracks |-> es.tracks, motion |-> es.motion, pairs |-> es.pairs,
          objects |-> es.objects, events |-> <<>>]
    ELSE
      LET d == DetectionLoop([tracks |-> es.tracks, motion |-> es.motion, events |-> <<>>,
                              seen |-> {}, collision_samples |-> <<>>,
                              abandoned_samples |-> <<>>],
                             rs, ms, cs, as, ts_ms, detections, 1)
          c == Collision_process_samples(es.pairs, cs, ts_ms, d.collision_samples)
          a == Abandoned_process_samples(es.objects, as, ts_ms, d.abandoned_samples)
      IN  [tracks |-> IF rs.enabled THEN _evict_stale_track_state(d.tracks, ts_ms)
                      ELSE d.tracks,
           motion |-> IF ms.enabled THEN Motion_evict_stale(d.motion, ts_ms) ELSE d.motion,
           pairs |-> IF cs.enabled THEN Collision_evict_stale(c.pairs, ts_ms) ELSE c.pairs,
           objects |-> a.objects,
           events |-> d.events \o c.events \o a.events]

\* ------------------------------------------------------------------------
\* History of the emitted events
\* ------------------------------------------------------------------------
TrackIds == {1, 2}
RegionKeys == {<<t, RegionOrder[i]>> : t \in TrackIds, i \in 1..Len(RegionOrder)}

IsRoiTransition(e) == e.name \in {"roi_enter", "roi_exit"}
IsRoiEventOf(e, key) ==
    /\ e.name \in {"roi_enter", "roi_exit", "roi_dwell"}
    /\ e.track_id = key[1]
    /\ e.data.roi = key[2]

\* The last roi_enter/roi_exit of key after the events, given the last one before.
RECURSIVE LastRoiEvent(_, _, _, _)
LastRoiEvent(before, events, key, i) ==
    IF i > Len(events) THEN before
    ELSE LastRoiEvent(IF IsRoiEventOf(events[i], key) /\ IsRoiTransition(events[i])
                      THEN events[i].name ELSE before,
                      events, key, i + 1)

\* The number of roi_dwell events of key since its last roi_enter/roi_exit.
RECURSIVE DwellCount(_, _, _, _)
DwellCount(before, events, key, i) ==
    IF i > Len(events) THEN before
    ELSE DwellCount(IF ~IsRoiEventOf(events[i], key) THEN before
                    ELSE IF IsRoiTransition(events[i]) THEN 0
                    ELSE before + 1,
                    events, key, i + 1)

CooldownEventNames == {"near_collision", "sudden_motion", "track_stop", "abandoned_object"}

\* The scope of the cooldown of an event: the pair, or the track.
EventScope(e) ==
    IF e.name = "near_collision"
    THEN <<e.name, e.data.a_track_id, e.data.b_track_id>>
    ELSE <<e.name, e.track_id, e.track_id>>

RECURSIVE AddEmits(_, _, _)
AddEmits(d, events, i) ==
    IF i > Len(events) THEN d
    ELSE AddEmits(IF events[i].name \in CooldownEventNames
                  THEN Put(d, EventScope(events[i]),
                           Get(d, EventScope(events[i]), {}) \cup {events[i].ts_ms})
                  ELSE d,
                  events, i + 1)

CountNamed(events, name, track_id) ==
    Len(SelectSeq(events, LAMBDA e : e.name = name /\ e.track_id = track_id))

HasWindow(ob, t) == t \in DOMAIN ob /\ ob[t].abandon_started_ts_ms # NoneInt

\* The update of the engine and of the history by one call of process.
EngineStep(ts_ms, detections) ==
    /\ \E r \in {process(EngineState, roi_settings, motion_settings, collision_settings,
                         abandoned_settings, ts_ms, detections)} :
           /\ tracks' = r.tracks
           /\ motion_tracks' = r.motion
           /\ pair_state' = r.pairs
           /\ objects' = r.objects
           /\ last_events' = r.events
           /\ dwell_count' = [key \in RegionKeys |->
                                DwellCount(dwell_count[key], r.events, key, 1)]
           /\ window_emits' = [t \in TrackIds |->
                 IF ~HasWindow(r.objects, t) THEN 0
                 ELSE (IF HasWindow(objects, t) THEN window_emits[t] ELSE 0)
                      + CountNamed(r.events, "abandoned_object", t)]
    /\ prev_roi_event' = [key \in RegionKeys |->
                            LastRoiEvent(prev_roi_event[key], last_events, key, 1)]
    /\ prev_emit_ts' = AddEmits(prev_emit_ts, last_events, 1)
    /\ seen_ts' = [t \in TrackIds |->
                     IF \E i \in 1..Len(detections) : detections[i].track_id = t
                     THEN ts_ms ELSE seen_ts[t]]
    /\ now_ts' = ts_ms
    /\ UNCHANGED <<roi_settings, motion_settings, collision_settings, abandoned_settings>>
    /\ UNCHANGED asset_vars

\* ------------------------------------------------------------------------
\* The state of one connection (infer_socket and its InsightBuffer)
\* ------------------------------------------------------------------------
VARIABLES
    service,                      \* "quickvision" or "vision"
    tracking_settings,            \* TrackingSettings (quickvision)
    insight_settings,             \* InsightSettings
    clock,                        \* time.time() in ms
    _frames,                      \* InsightBuffer._frames
    _next_seq,                    \* InsightBuffer._next_seq
    _frame_event,                 \* InsightBuffer._frame_event is set
    _last_insight_ts_ms,          \* InsightBuffer._last_insight_ts_ms
    _last_surprise_trigger_ts_ms, \* InsightBuffer._last_surprise_trigger_ts_ms
    pending_frame,                \* the pending slot
    pending_frame_event,          \* pending_frame_event is set
    inference_running,
    send_lock,                    \* the task holding send_lock, or None
    pc,                           \* where each task is suspended
    payload,                      \* the payload each task is sending
    frame,                        \* the frame inside process_frame
    job,                          \* the locals of the two insight tasks
    in_worker,                    \* history: seq of the frames inside process_frame
    processed,                    \* history: seq of the frames process_frame returned for
    frame_msgs,                   \* history: payloads written for the frame in the worker
    finished,                     \* history: the frame finished in the last step and its payloads
    insight_sent_ms,              \* history: when the last insight message was written
    insight_gap                   \* history: the time between the insight written in the last step and the one before

conn_vars == <<service, tracking_settings, insight_settings, clock, _frames, _next_seq,
               _frame_event, _last_insight_ts_ms, _last_surprise_trigger_ts_ms,
               pending_frame, pending_frame_event, inference_running, send_lock,
               pc, payload, frame, job, in_worker, processed, frame_msgs, finished,
               insight_sent_ms, insight_gap>>

\* ------------------------------------------------------------------------
\* The engine step: one call of DetectionEventEngine.process
\* ------------------------------------------------------------------------
Process(ts_ms, detections) ==
    /\ ts_ms >= now_ts
    /\ ts_ms <= MaxTs
    /\ EngineStep(ts_ms, detections)
    /\ UNCHANGED conn_vars

\* ------------------------------------------------------------------------
\* Inputs and configurations of the engine specifications
\* ------------------------------------------------------------------------
Box(point) == <<point[1] - 10, point[2] - 10, point[1] + 10, point[2] + 10>>
Det(track_id, name, point) == [track_id |-> track_id, name |-> name, box |-> Box(point)]

\* Sequences of at most two elements of S.
Lists2(S) == {<<>>} \cup {<<a>> : a \in S} \cup {<<a, b>> : a, b \in S}

\* regions and lines: the names of RoiSettings.regions and RoiSettings.lines
\* in dict order.
DisabledRoi == [enabled |-> FALSE, regions |-> RegionOrder, lines |-> LineOrder,
                dwell_default_threshold_ms |-> 2 * TimeStep,
                dwell_region_threshold_ms |-> EmptyDict, transition_min_ms |-> 0]
DisabledMotion == [enabled |-> FALSE, history_frames |-> 2, sudden_motion_speed_px_s |-> 10,
                   stop_speed_px_s |-> 2, stop_duration_ms |-> TimeStep,
                   event_cooldown_ms |-> 0]
DisabledCollision == [enabled |-> FALSE, pairs |-> {<<"person", "person">>},
                      distance_px |-> 50, closing_speed_px_s |-> 10,
                      pair_cooldown_ms |-> 0]
DisabledAbandoned == [enabled |-> FALSE, object_classes |-> {"backpack"},
                      associate_max_distance_px |-> 100, associate_min_ms |-> TimeStep,
                      abandon_delay_ms |-> 2 * TimeStep, stationary_max_move_px |-> NoneInt,
                      roi |-> None, event_cooldown_ms |-> 0]

InitEngineState ==
    /\ tracks = EmptyDict
    /\ motion_tracks = EmptyDict
    /\ pair_state = EmptyDict
    /\ objects = EmptyDict
    /\ now_ts = 0
    /\ last_events = <<>>
    /\ prev_roi_event = [key \in RegionKeys |-> "none"]
    /\ dwell_count = [key \in RegionKeys |-> 0]
    /\ prev_emit_ts = EmptyDict
    /\ window_emits = [t \in TrackIds |-> 0]
    /\ seen_ts = [t \in TrackIds |-> NoneInt]

\* --- The connection before its first message.
Tasks == {"recv", "worker", "manual", "auto"}
InsightTasks == {"manual", "auto"}

NoFrame == [seq |-> NoneInt, frame_id |-> None]
Msg(type, code, frame_id) == [type |-> type, code |-> code, frame_id |-> frame_id]
NoMsg == Msg("none", None, None)
\* frame_seq tags an auto-insight task with the frame whose events created it.
NoJob == [trigger_frame_id |-> None, events |-> <<>>, trigger |-> NoFrame,
          now_ms |-> NoneInt, selected |-> <<>>, post_target |-> 0, post_frames |-> <<>>,
          frame_seq |-> NoneInt]
NoFinished == [seq |-> NoneInt, frame_id |-> None, msgs |-> <<>>]

DefaultTracking == [enabled |-> FALSE, busy_policy |-> "latest"]
DisabledInsights ==
    [enabled |-> FALSE, timeout_ms |-> TimeStep, max_frames |-> 3, pre_frames |-> 1,
     post_frames |-> 1, insight_cooldown_ms |-> TimeStep,
     assets |-> [max_clips |-> 2, max_age_hours |-> 1],
     surprise |-> [enabled |-> FALSE, threshold |-> 3, cooldown_ms |-> TimeStep,
                   weights |-> [n \in {"line_cross", "roi_dwell", "scene_change"} |-> 3]]]

InitConnState ==
    /\ clock = 0
    /\ assets_dir = EmptyDict
    /\ current_clip_dir = None
    /\ pruned = {}
    /\ _frames = <<>>
    /\ _next_seq = 1
    /\ _frame_event = FALSE
    /\ _last_insight_ts_ms = NoneInt
    /\ _last_surprise_trigger_ts_ms = NoneInt
    /\ pending_frame = NoFrame
    /\ pending_frame_event = FALSE
    /\ inference_running = FALSE
    /\ send_lock = None
    /\ pc = [t \in Tasks |-> CASE t = "recv" -> "receive"
                               [] t = "worker" -> "wait_event"
                               [] OTHER -> "none"]
    /\ payload = [t \in Tasks |-> NoMsg]
    /\ frame = NoFrame
    /\ job = [t \in InsightTasks |-> NoJob]
    /\ in_worker = {}
    /\ processed = {}
    /\ frame_msgs = <<>>
    /\ finished = NoFinished
    /\ insight_sent_ms = NoneInt
    /\ insight_gap = NoneInt

IdleConnection ==
    /\ service = "quickvision"
    /\ tracking_settings = DefaultTracking
    /\ insight_settings = DisabledInsights
    /\ InitConnState

vars == <<engine_vars, conn_vars, asset_vars>>

\* --- ROI engine alone: track 1 on the line x = 200, below the gate and
\* outside the zone, or above the gate and inside the zone; track 2 inside.
RoiPoints == {<<200, 50>>, <<200, 200>>}
RoiDetLists == Lists2({Det(1, "person", p) : p \in RoiPoints}
                      \cup {Det(2, "person", <<200, 200>>)})
RoiDeltas == {0, TimeStep, TRACK_STATE_TTL_MS + TimeStep}

InitRoi ==
    /\ roi_settings \in {[DisabledRoi EXCEPT !.enabled = TRUE, !.transition_min_ms = m] :
                           m \in {0, TimeStep}}
    /\ motion_settings = DisabledMotion
    /\ collision_settings = DisabledCollision
    /\ abandoned_settings = DisabledAbandoned
    /\ InitEngineState
    /\ IdleConnection

NextRoi == \E d \in RoiDeltas, detections \in RoiDetLists : Process(now_ts + d, detections)

SpecRoi == InitRoi /\ [][NextRoi]_vars

\* ------------------------------------------------------------------------
\* Claims on the ROI engine
\* ------------------------------------------------------------------------
RoiTransitionsOf(events, key) ==
    SelectSeq(events, LAMBDA e : IsRoiEventOf(e, key) /\ IsRoiTransition(e))

\* The transitions strictly alternate, continuing after the transition before.
RECURSIVE Alternates(_, _, _)
Alternates(before, transitions, i) ==
    IF i > Len(transitions) THEN TRUE
    ELSE /\ transitions[i].name = (IF before = "roi_enter" THEN "roi_exit" ELSE "roi_enter")
         /\ Alternates(transitions[i].name, transitions, i + 1)

\* C1: for every track T and region R the roi_enter/roi_exit events emitted
\* for (T,R) strictly alternate and the first one is roi_enter, over any
\* sequence of frames, gaps longer than the track TTL included.
C1_RoiEventsAlternate ==
    \A key \in RegionKeys :
        Alternates(prev_roi_event[key], RoiTransitionsOf(last_events, key), 1)

InitRoiMotion ==
    /\ roi_settings = [DisabledRoi EXCEPT !.enabled = TRUE]
    /\ motion_settings = [DisabledMotion EXCEPT !.enabled = TRUE]
    /\ collision_settings = DisabledCollision
    /\ abandoned_settings = DisabledAbandoned
    /\ InitEngineState
    /\ IdleConnection

\* Track 1 at rest outside the zone, track 2 at rest inside it.
RoiMotionDetLists ==
    Lists2({Det(1, "person", <<200, 50>>), Det(2, "person", <<200, 200>>)})
RoiMotionDeltas == {TimeStep, TRACK_STATE_TTL_MS, TRACK_STATE_TTL_MS + TimeStep}

NextRoiMotion ==
    \E d \in RoiMotionDeltas, detections \in RoiMotionDetLists : Process(now_ts + d, detections)

SpecRoiMotion == InitRoiMotion /\ [][NextRoiMotion]_vars

\* --- Motion engine alone: a track seen at rest or moved by 150 px.
MotionDetLists == Lists2({Det(t, "person", p) : t \in {1}, p \in RoiPoints}
                         \cup {Det(NoneInt, "person", <<200, 50>>)})

InitMotion ==
    /\ roi_settings = DisabledRoi
    /\ motion_settings \in {[DisabledMotion EXCEPT !.enabled = TRUE, !.history_frames = 3,
                                                   !.stop_duration_ms = sd,
                                                   !.event_cooldown_ms = cd] :
                              sd \in {0, TimeStep}, cd \in {2 * TimeStep, 6 * TimeStep}}
    /\ collision_settings = DisabledCollision
    /\ abandoned_settings = DisabledAbandoned
    /\ InitEngineState
    /\ IdleConnection

NextMotion == \E d \in Deltas, detections \in MotionDetLists : Process(now_ts + d, detections)

SpecMotion == InitMotion /\ [][NextMotion]_vars

\* --- Collision engine alone: track 1 at the origin, track 2 at 200 px or 40 px.
CollisionDetLists ==
    Lists2({Det(1, "person", <<0, 0>>), Det(2, "person", <<200, 0>>),
            Det(2, "person", <<40, 0>>), Det(2, "car", <<40, 0>>)})

InitCollision ==
    /\ roi_settings = DisabledRoi
    /\ motion_settings = DisabledMotion
    /\ collision_settings \in {[DisabledCollision EXCEPT !.enabled = TRUE,
                                                         !.closing_speed_px_s = cl,
                                                         !.pair_cooldown_ms = cd] :
                                 cl \in {0, 10}, cd \in {2 * TimeStep, 6 * TimeStep}}
    /\ abandoned_settings = DisabledAbandoned
    /\ InitEngineState
    /\ IdleConnection

NextCollision ==
    \E d \in Deltas, detections \in CollisionDetLists : Process(now_ts + d, detections)

SpecCollision == InitCollision /\ [][NextCollision]_vars

\* --- Abandoned engine alone: track 1 is a backpack (at rest, moved by 100 px,
\* or outside the zone), track 2 a person next to it or 400 px away.
AbandonedObjects == {Det(1, "backpack", <<100, 100>>), Det(1, "backpack", <<100, 200>>),
                     Det(1, "backpack", <<100, 400>>)}
AbandonedPersons == {Det(2, "person", <<100, 100>>), Det(2, "person", <<100, 500>>)}
AbandonedDetLists ==
    {<<>>} \cup {<<a>> : a \in AbandonedObjects \cup AbandonedPersons}
           \cup {<<a, b>> : a \in AbandonedObjects, b \in AbandonedPersons}

InitAbandoned ==
    /\ roi_settings = DisabledRoi
    /\ motion_settings = DisabledMotion
    /\ collision_settings = DisabledCollision
    /\ abandoned_settings \in {[DisabledAbandoned EXCEPT !.enabled = TRUE,
                                                         !.abandon_delay_ms = TimeStep,
                                                         !.stationary_max_move_px = mv,
                                                         !.roi = r] :
                                 mv \in {NoneInt, 50}, r \in {None, "zone"}}
    /\ InitEngineState
    /\ IdleConnection

NextAbandoned ==
    \E d \in Deltas, detections \in AbandonedDetLists : Process(now_ts + d, detections)

SpecAbandoned == InitAbandoned /\ [][NextAbandoned]_vars

\* ------------------------------------------------------------------------
\* Claims on the cooldowns, the abandonment window and the eviction
\* ------------------------------------------------------------------------
EventsNamed(events, names) == SelectSeq(events, LAMBDA e : e.name \in names)

\* Every event of the names in the last call is at least cooldown_ms away from
\* every earlier emission of its scope, and from the others of the same call.
CooldownRespected(names, cooldown_ms) ==
    LET es == EventsNamed(last_events, names) IN
    \A i \in 1..Len(es) :
        /\ \A t \in Get(prev_emit_ts, EventScope(es[i]), {}) :
               Abs(es[i].ts_ms - t) >= cooldown_ms
        /\ \A j \in 1..Len(es) :
               (j # i /\ EventScope(es[j]) = EventScope(es[i]))
                   => Abs(es[i].ts_ms - es[j].ts_ms) >= cooldown_ms

\* C4: for any track pair and any configured pair_cooldown_ms, values above
\* the pair TTL included, the timestamps of any two near_collision emissions
\* for the pair differ by at least pair_cooldown_ms.
C4_PairCooldown == CooldownRespected({"near_collision"}, collision_settings.pair_cooldown_ms)

\* C5: for any track and any configured motion.event_cooldown_ms, values above
\* the track TTL included, the timestamps of any two sudden_motion emissions
\* for the track differ by at least event_cooldown_ms, and likewise for any
\* two track_stop emissions.
C5_MotionCooldown ==
    /\ CooldownRespected({"sudden_motion"}, motion_settings.event_cooldown_ms)
    /\ CooldownRespected({"track_stop"}, motion_settings.event_cooldown_ms)

\* C6: abandoned_object is emitted at most once per continuous abandonment
\* window of an object track, the window running from the frame that sets
\* abandon_started_ts_ms to the next reset of the abandonment or the removal
\* of the object state.
C6_AbandonedOncePerWindow == \A t \in TrackIds : window_emits[t] <= 1

\* A frame that observes the object in its window, past abandon_delay_ms and
\* after the window's emission, and emits nothing.
C6_Witness ==
    \E t \in TrackIds :
        /\ window_emits[t] = 1
        /\ HasWindow(objects, t)
        /\ objects[t].last_seen_ts_ms = now_ts
        /\ now_ts - objects[t].abandon_started_ts_ms > abandoned_settings.abandon_delay_ms
        /\ objects[t].last_event_ts_ms < now_ts
        /\ last_events = <<>>

\* C8: after process returns for a frame with timestamp ts, the ROI track
\* state and the motion track state hold exactly the tracks last seen at most
\* TRACK_STATE_TTL_MS before ts: nothing older remains, and state last seen
\* exactly 30 000 ms ago is kept.
C8_StaleStateEvicted ==
    /\ \A t \in DOMAIN tracks : now_ts - tracks[t].last_seen_ts_ms <= TRACK_STATE_TTL_MS
    /\ \A t \in DOMAIN motion_tracks :
           now_ts - motion_tracks[t].last_seen_ts_ms <= TRACK_STATE_TTL_MS
    /\ \A t \in TrackIds :
           LET fresh == seen_ts[t] # NoneInt /\ now_ts - seen_ts[t] <= TRACK_STATE_TTL_MS
           IN  /\ roi_settings.enabled => (t \in DOMAIN tracks <=> fresh)
               /\ motion_settings.enabled => (t \in DOMAIN motion_tracks <=> fresh)

\* One track kept with state last seen exactly the TTL ago while another
\* track, seen earlier, has been evicted from both engines.
C8_Witness ==
    \E t, u \in TrackIds :
        /\ t \in DOMAIN tracks /\ t \in DOMAIN motion_tracks
        /\ now_ts - tracks[t].last_seen_ts_ms = TRACK_STATE_TTL_MS
        /\ now_ts - motion_tracks[t].last_seen_ts_ms = TRACK_STATE_TTL_MS
        /\ seen_ts[u] # NoneInt
        /\ u \notin DOMAIN tracks /\ u \notin DOMAIN motion_tracks

\* ------------------------------------------------------------------------
\* InsightBuffer (quickvision/app/insights.py)
\* ------------------------------------------------------------------------
FRAME_BUFFER_MAXLEN == 128

FirstN(s, n) == SubSeq(s, 1, Min(n, Len(s)))
LastN(s, n) == SubSeq(s, Max(1, Len(s) - n + 1), Len(s))

_collect_pre_frames_Earliest(frames, config, trigger_seq) ==
    IF config.pre_frames <= 0 THEN <<>>
    ELSE FirstN(SelectSeq(frames, LAMBDA f : f.seq < trigger_seq), config.pre_frames)
_collect_pre_frames(frames, config, trigger_seq) ==
    IF config.pre_frames <= 0 THEN <<>>
    ELSE LastN(SelectSeq(frames, LAMBDA f : f.seq < trigger_seq), config.pre_frames)

_collect_post_frames(frames, trigger_seq, limit) ==
    IF limit <= 0 THEN <<>>
    ELSE FirstN(SelectSeq(frames, LAMBDA f : f.seq > trigger_seq), limit)

_latest_trigger_frame(frames) == frames[Len(frames)]

\* The last buffered frame with the id, else the last buffered frame.
_find_trigger_frame(frames, trigger_frame_id) ==
    LET matching == {i \in 1..Len(frames) : frames[i].frame_id = trigger_frame_id} IN
    IF matching # {} THEN frames[CHOOSE i \in matching : \A j \in matching : j <= i]
    ELSE IF frames = <<>> THEN NoFrame
    ELSE frames[Len(frames)]

_is_insight_cooldown_active_Never(last_insight_ts_ms, config, now_ms) == FALSE
_is_insight_cooldown_active(last_insight_ts_ms, config, now_ms) ==
    IF last_insight_ts_ms = NoneInt \/ config.insight_cooldown_ms <= 0 THEN FALSE
    ELSE now_ms - last_insight_ts_ms < config.insight_cooldown_ms

_is_surprise_cooldown_active(last_surprise_trigger_ts_ms, config, now_ms) ==
    IF last_surprise_trigger_ts_ms = NoneInt \/ config.surprise.cooldown_ms <= 0 THEN FALSE
    ELSE now_ms - last_surprise_trigger_ts_ms < config.surprise.cooldown_ms

\* The event names of the engines are lower case, so name.lower() is the name.
RECURSIVE _compute_surprise_score(_, _, _)
_compute_surprise_score(config, events, i) ==
    IF i > Len(events) THEN 0
    ELSE Get(config.surprise.weights, events[i].name, 0)
         + _compute_surprise_score(config, events, i + 1)

\* The clip of a job: the pre-frames, the trigger and the post-frames collected.
Clip(config, j) == FirstN(j.selected \o j.post_frames, config.max_frames)

\* ------------------------------------------------------------------------
\* infer_socket (quickvision/app/main.py): the send lock and the receive loop
\* ------------------------------------------------------------------------
should_use_latest_pending_slot(config) == config.enabled /\ config.busy_policy = "latest"

\* The vision service has no tracking settings: its slot always drops.
use_latest_pending_slot ==
    service = "quickvision" /\ should_use_latest_pending_slot(tracking_settings)

make_error(code, frame_id) == Msg("error", code, frame_id)

\* The step finishes no frame and writes no insight.
NothingLogged ==
    /\ finished' = NoFinished
    /\ insight_gap' = NoneInt
    /\ UNCHANGED insight_sent_ms

\* asyncio.Lock.acquire returns at once when the lock is free and nobody waits.
LockFree_Always(lock, pcs) == TRUE
LockFree(lock, pcs) == lock = None /\ \A t \in Tasks : pcs[t] # "lock_wait"

\* Task t calls send_payload(msg), the lock being lock and the tasks at pcs.
send_payload(t, msg, lock, pcs, pls) ==
    /\ payload' = [pls EXCEPT ![t] = msg]
    /\ IF LockFree(lock, pcs)
       THEN send_lock' = t /\ pc' = [pcs EXCEPT ![t] = "writing"]
       ELSE send_lock' = lock /\ pc' = [pcs EXCEPT ![t] = "lock_wait"]

\* A task waiting for the send lock gets it and enters websocket.send_json.
AcquireLock(t) ==
    /\ pc[t] = "lock_wait"
    /\ send_lock = None
    /\ send_lock' = t
    /\ pc' = [pc EXCEPT ![t] = "writing"]
    /\ UNCHANGED <<service, tracking_settings, insight_settings, clock, _frames, _next_seq,
                   _frame_event, _last_insight_ts_ms, _last_surprise_trigger_ts_ms,
                   pending_frame, pending_frame_event, inference_running, payload, frame,
                   job, in_worker, processed, frame_msgs>>
    /\ NothingLogged
    /\ UNCHANGED <<engine_vars, asset_vars>>

Tick ==
    /\ clock + ClockStep <= MaxClock
    /\ clock' = clock + ClockStep
    /\ UNCHANGED <<service, tracking_settings, insight_settings, _frames, _next_seq,
                   _frame_event, _last_insight_ts_ms, _last_surprise_trigger_ts_ms,
                   pending_frame, pending_frame_event, inference_running, send_lock, pc,
                   payload, frame, job, in_worker, processed, frame_msgs>>
    /\ NothingLogged
    /\ UNCHANGED <<engine_vars, asset_vars>>

\* The receive loop answers a bad text message or a bad envelope with an error.
RecvErrorCodes == {"INVALID_JSON", "INVALID_COMMAND"}

RecvError(code) ==
    /\ pc["recv"] = "receive"
    /\ send_payload("recv", make_error(code, None), send_lock, pc, payload)
    /\ UNCHANGED <<service, tracking_settings, insight_settings, clock, _frames, _next_seq,
                   _frame_event, _last_insight_ts_ms, _last_surprise_trigger_ts_ms,
                   pending_frame, pending_frame_event, inference_running, frame, job,
                   in_worker, processed, frame_msgs>>
    /\ NothingLogged
    /\ UNCHANGED <<engine_vars, asset_vars>>

\* manual_insight_task is not None and not manual_insight_task.done()
ManualTaskBusy_Never(pcs) == FALSE
ManualTaskBusy(pcs) == pcs["manual"] \notin {"none", "done"}

\* The insight_test command.
RecvInsightTest ==
    /\ pc["recv"] = "receive"
    /\ IF ManualTaskBusy(pc)
       THEN send_payload("recv", make_error("INSIGHT_BUSY", None), send_lock, pc, payload)
       ELSE /\ pc' = [pc EXCEPT !["manual"] = "created"]
            /\ UNCHANGED <<payload, send_lock>>
    /\ UNCHANGED <<service, tracking_settings, insight_settings, clock, _frames, _next_seq,
                   _frame_event, _last_insight_ts_ms, _last_surprise_trigger_ts_ms,
                   pending_frame, pending_frame_event, inference_running, frame, job,
                   in_worker, processed, frame_msgs>>
    /\ NothingLogged
    /\ UNCHANGED <<engine_vars, asset_vars>>

\* The slot takes the frame: always under the latest policy, else when idle.
SlotAccepts_IgnoresSlot(use_latest, running, pending) ==
    use_latest \/ ~running
SlotAccepts(use_latest, running, pending) ==
    use_latest \/ ~(running \/ pending # NoFrame)

\* A binary frame: buffered for the insights, then offered to the pending slot.
RecvFrame(frame_id) ==
    /\ pc["recv"] = "receive"
    /\ LET f == [seq |-> _next_seq, frame_id |-> frame_id] IN
       /\ _frames' = DequeAppend(_frames, f, FRAME_BUFFER_MAXLEN)
       /\ _next_seq' = _next_seq + 1
       /\ _frame_event' = TRUE
       /\ IF SlotAccepts(use_latest_pending_slot, inference_running, pending_frame)
          THEN /\ pending_frame' = f
               /\ pending_frame_event' = TRUE
               /\ UNCHANGED <<pc, payload, send_lock>>
          ELSE /\ send_payload("recv", make_error("BUSY", frame_id), send_lock, pc, payload)
               /\ UNCHANGED <<pending_frame, pending_frame_event>>
    /\ UNCHANGED <<service, tracking_settings, insight_settings, clock,
                   _last_insight_ts_ms, _last_surprise_trigger_ts_ms, inference_running,
                   frame, job, in_worker, processed, frame_msgs>>
    /\ NothingLogged
    /\ UNCHANGED <<engine_vars, asset_vars>>

\* A binary payload of len bytes: its first four bytes hold L, the next L
\* bytes the metadata (valid, not JSON, or JSON that fails validation) with
\* the declared image_bytes, the rest is the image.
BINARY_META_LENGTH_BYTES == 4
Envelope(len, L, meta, image_bytes) ==
    [len |-> len, L |-> L, meta |-> meta, image_bytes |-> image_bytes, frame_id |-> "f1"]
BinaryPayloads ==
    {Envelope(3, 0, "ok", 3), Envelope(10, 0, "ok", 6), Envelope(7, 10, "ok", 3),
     Envelope(10, 3, "bad_json", 3), Envelope(10, 3, "invalid", 3),
     Envelope(10, 3, "ok", 5), Envelope(10, 3, "ok", 3)}

\* decode_binary_frame_envelope: the frame_id of the envelope, or a parse error.
decode_binary_frame_envelope_NoImageCheck(b) ==
    IF b.len < BINARY_META_LENGTH_BYTES THEN "BinaryFrameParseError"
    ELSE IF b.L <= 0 THEN "BinaryFrameParseError"
    ELSE IF b.len < BINARY_META_LENGTH_BYTES + b.L THEN "BinaryFrameParseError"
    ELSE IF b.meta # "ok" THEN "BinaryFrameParseError"
    ELSE b.frame_id
decode_binary_frame_envelope(b) ==
    IF b.len < BINARY_META_LENGTH_BYTES THEN "BinaryFrameParseError"
    ELSE IF b.L <= 0 THEN "BinaryFrameParseError"
    ELSE IF b.len < BINARY_META_LENGTH_BYTES + b.L THEN "BinaryFrameParseError"
    ELSE IF b.meta # "ok" THEN "BinaryFrameParseError"
    ELSE IF b.len - (BINARY_META_LENGTH_BYTES + b.L) # b.image_bytes
    THEN "BinaryFrameParseError"
    ELSE b.frame_id

\* A binary message: the envelope is decoded, and the frame received.
RecvBinary(b) ==
    IF decode_binary_frame_envelope(b) = "BinaryFrameParseError"
    THEN RecvError("INVALID_FRAME_BINARY")
    ELSE RecvFrame(decode_binary_frame_envelope(b))

\* ------------------------------------------------------------------------
\* infer_socket: the inference worker and process_frame
\* ------------------------------------------------------------------------
FrameOutcomes == {"ok", "decode_error", "error"}

\* The payload process_frame sends for the outcome of the inference.
FrameReply_WrongCode(svc, f, outcome) ==
    IF outcome = "ok"
    THEN Msg(IF svc = "quickvision" THEN "detections" ELSE "frame_events", None, f.frame_id)
    ELSE make_error("INVALID_FRAME_BINARY", f.frame_id)
FrameReply(svc, f, outcome) ==
    IF outcome = "ok"
    THEN Msg(IF svc = "quickvision" THEN "detections" ELSE "frame_events", None, f.frame_id)
    ELSE IF outcome = "decode_error" THEN make_error("INVALID_IMAGE", f.frame_id)
    ELSE make_error("INFERENCE_ERROR", f.frame_id)

SceneChangeEvent(ts_ms) ==
    [name |-> "scene_change", ts_ms |-> ts_ms, severity |-> "low", track_id |-> NoneInt,
     data |-> [reason |-> "pixel"]]

\* The worker takes f from the slot and enters process_frame. quickvision
\* awaits run_inference; vision runs the scene change engine and sends at once.
StartFrame(f, lock, pcs, pls) ==
    /\ pending_frame' = NoFrame
    /\ inference_running' = TRUE
    /\ frame' = f
    /\ frame_msgs' = <<>>
    /\ IF service = "quickvision"
       THEN /\ pc' = [pcs EXCEPT !["worker"] = "infer"]
            /\ payload' = pls
            /\ send_lock' = lock
            /\ UNCHANGED <<engine_vars, asset_vars>>
       ELSE \E outcome \in FrameOutcomes, changed \in BOOLEAN :
            /\ outcome # "ok" => ~changed
            /\ last_events' = IF outcome # "ok" THEN last_events
                              ELSE IF changed THEN <<SceneChangeEvent(clock)>> ELSE <<>>
            /\ send_payload("worker", FrameReply(service, f, outcome), lock, pcs, pls)
            /\ UNCHANGED <<roi_settings, motion_settings, collision_settings,
                           abandoned_settings, tracks, motion_tracks, pair_state, objects,
                           now_ts, prev_roi_event, dwell_count, prev_emit_ts, window_emits,
                           seen_ts, asset_vars>>

\* pending_frame_event.wait() returns and the worker clears the event without
\* looking at the pending frame.
WorkerWake_LeavesFrame ==
    /\ pc["worker"] = "wait_event"
    /\ pending_frame_event
    /\ pending_frame_event' = FALSE
    /\ UNCHANGED <<pending_frame, inference_running, frame, frame_msgs, pc, payload,
                   send_lock, in_worker, engine_vars, asset_vars>>
    /\ UNCHANGED <<service, tracking_settings, insight_settings, clock, _frames, _next_seq,
                   _frame_event, _last_insight_ts_ms, _last_surprise_trigger_ts_ms, job,
                   processed>>
    /\ NothingLogged

\* pending_frame_event.wait() returns: the worker clears the event and takes
\* the pending frame, if there is one.
WorkerWake ==
    /\ pc["worker"] = "wait_event"
    /\ pending_frame_event
    /\ pending_frame_event' = FALSE
    /\ IF pending_frame # NoFrame
       THEN /\ StartFrame(pending_frame, send_lock, pc, payload)
            /\ in_worker' = in_worker \cup {pending_frame.seq}
       ELSE UNCHANGED <<pending_frame, inference_running, frame, frame_msgs, pc, payload,
                        send_lock, in_worker, engine_vars, asset_vars>>
    /\ UNCHANGED <<service, tracking_settings, insight_settings, clock, _frames, _next_seq,
                   _frame_event, _last_insight_ts_ms, _last_surprise_trigger_ts_ms, job,
                   processed>>
    /\ NothingLogged

\* run_inference returns or raises; the events are computed and the reply sent.
InferDone(outcome, detections) ==
    /\ pc["worker"] = "infer"
    /\ IF outcome = "ok"
       THEN EngineStep(clock, detections)
       ELSE UNCHANGED <<engine_vars, asset_vars>>
    /\ send_payload("worker", FrameReply(service, frame, outcome), send_lock, pc, payload)
    /\ UNCHANGED <<service, tracking_settings, insight_settings, clock, _frames, _next_seq,
                   _frame_event, _last_insight_ts_ms, _last_surprise_trigger_ts_ms,
                   pending_frame, pending_frame_event, inference_running, frame, job,
                   in_worker, processed, frame_msgs>>
    /\ NothingLogged

\* auto_insight_task is None or auto_insight_task.done()
AutoTaskFree_Always(pcs) == TRUE
AutoTaskFree(pcs) == pcs["auto"] \in {"none", "done"}

CreatesAutoTask_AnyReply(sent) ==
    /\ last_events # <<>>
    /\ insight_settings.enabled
    /\ insight_settings.surprise.enabled
    /\ AutoTaskFree(pc)
\* The send that returned was the one of the try block (the reply of a frame
\* whose inference succeeded), and the condition of the if after it holds.
CreatesAutoTask(sent) ==
    /\ sent.type \in {"detections", "frame_events"}
    /\ last_events # <<>>
    /\ insight_settings.enabled
    /\ insight_settings.surprise.enabled
    /\ AutoTaskFree(pc)

\* process_frame continues after its send: it may create the auto-insight
\* task, returns, and the worker takes the next pending frame or waits.
WorkerAfterSend(pls) ==
    LET sent == payload["worker"]
        create == CreatesAutoTask(sent)
        pcs == IF create THEN [pc EXCEPT !["auto"] = "created"] ELSE pc
    IN  /\ job' = IF create
                  THEN [job EXCEPT !["auto"] = [NoJob EXCEPT !.trigger_frame_id = frame.frame_id,
                                                             !.events = last_events,
                                                             !.frame_seq = frame.seq]]
                  ELSE job
        /\ processed' = processed \cup {frame.seq}
        /\ finished' = [seq |-> frame.seq, frame_id |-> frame.frame_id,
                         msgs |-> Append(frame_msgs, sent)]
        /\ IF pending_frame # NoFrame
           THEN /\ StartFrame(pending_frame, None, pcs, pls)
                /\ in_worker' = (in_worker \ {frame.seq}) \cup {pending_frame.seq}
                /\ UNCHANGED pending_frame_event
           ELSE /\ pc' = [pcs EXCEPT !["worker"] = "wait_event"]
                /\ inference_running' = FALSE
                /\ frame' = NoFrame
                /\ frame_msgs' = <<>>
                /\ in_worker' = in_worker \ {frame.seq}
                /\ pending_frame_event' = FALSE
                /\ send_lock' = None
                /\ payload' = pls
                /\ UNCHANGED <<pending_frame, engine_vars, asset_vars>>

\* websocket.send_json of task t returns (ok) or raises (swallowed); the lock
\* is released and the task continues to its next await.
WriteDone(t, ok) ==
    /\ pc[t] = "writing"
    /\ IF payload[t].type = "insight" /\ ok
       THEN /\ insight_sent_ms' = clock
            /\ insight_gap' = IF insight_sent_ms = NoneInt THEN NoneInt
                              ELSE clock - insight_sent_ms
       ELSE /\ insight_gap' = NoneInt
            /\ UNCHANGED insight_sent_ms
    /\ LET pls == [payload EXCEPT ![t] = NoMsg] IN
       IF t = "worker"
       THEN WorkerAfterSend(pls)
       ELSE /\ send_lock' = None
            /\ payload' = pls
            /\ pc' = [pc EXCEPT ![t] = IF t = "recv" THEN "receive" ELSE "done"]
            /\ job' = IF t = "recv" THEN job ELSE [job EXCEPT ![t] = NoJob]
            /\ finished' = NoFinished
            /\ UNCHANGED <<pending_frame, pending_frame_event, inference_running, frame,
                           in_worker, processed, frame_msgs, engine_vars, asset_vars>>
    /\ UNCHANGED <<service, tracking_settings, insight_settings, clock, _frames, _next_seq,
                   _frame_event, _last_insight_ts_ms, _last_surprise_trigger_ts_ms>>

\* ------------------------------------------------------------------------
\* infer_socket: process_insight_test and process_auto_insight
\* ------------------------------------------------------------------------
\* The task ends with an error: the manual task reports it to the client,
\* the auto task only prints it.
InsightFail(t, code) ==
    /\ job' = [job EXCEPT ![t] = NoJob]
    /\ IF t = "manual"
       THEN send_payload(t, make_error(code, None), send_lock, pc, payload)
       ELSE /\ pc' = [pc EXCEPT ![t] = "done"]
            /\ UNCHANGED <<payload, send_lock>>

\* The clip is complete: _request_insight calls the vision agent.
CallAgent(t, j) ==
    IF Clip(insight_settings, j) = <<>>
    THEN InsightFail(t, "NO_CLIP_FRAMES")
    ELSE /\ job' = [job EXCEPT ![t] = j]
         /\ pc' = [pc EXCEPT ![t] = "agent"]
         /\ UNCHANGED <<payload, send_lock>>

\* _request_insight up to its first await: the pre-frames and the post-frames
\* already buffered are collected, and the task waits for the missing ones.
\* waiting is the position of a task that waits: "clip_wait" where the wait is
\* taken as one step, "clip_enter" where the steps of asyncio.wait_for are
\* told apart.
RequestInsight(t, trigger, now_ms, waiting) ==
    LET selected == _collect_pre_frames(_frames, insight_settings, trigger.seq) \o <<trigger>>
        remaining_capacity == Max(insight_settings.max_frames - Len(selected), 0)
        post_target == Min(insight_settings.post_frames, remaining_capacity)
        post_frames == _collect_post_frames(_frames, trigger.seq, post_target)
        j == [job[t] EXCEPT !.trigger = trigger, !.now_ms = now_ms, !.selected = selected,
                            !.post_target = post_target, !.post_frames = post_frames]
    IN  IF Len(post_frames) < post_target
        THEN /\ job' = [job EXCEPT ![t] = j]
             /\ pc' = [pc EXCEPT ![t] = waiting]
             /\ UNCHANGED <<payload, send_lock>>
        ELSE CallAgent(t, j)

\* process_insight_test starts: run_insight_test up to its first await.
ManualStart ==
    /\ pc["manual"] = "created"
    /\ IF ~insight_settings.enabled
       THEN InsightFail("manual", "INSIGHTS_DISABLED") /\ UNCHANGED _last_insight_ts_ms
       ELSE IF _frames = <<>>
       THEN InsightFail("manual", "NO_TRIGGER_FRAME") /\ UNCHANGED _last_insight_ts_ms
       ELSE IF _is_insight_cooldown_active(_last_insight_ts_ms, insight_settings, clock)
       THEN InsightFail("manual", "INSIGHT_COOLDOWN") /\ UNCHANGED _last_insight_ts_ms
       ELSE /\ _last_insight_ts_ms' = clock
            /\ RequestInsight("manual", _latest_trigger_frame(_frames), clock, "clip_wait")
    /\ UNCHANGED <<service, tracking_settings, insight_settings, clock, _frames, _next_seq,
                   _frame_event, _last_surprise_trigger_ts_ms, pending_frame,
                   pending_frame_event, inference_running, frame, in_worker, processed,
                   frame_msgs>>
    /\ NothingLogged
    /\ UNCHANGED <<engine_vars, asset_vars>>

\* process_auto_insight starts: run_auto_insight up to its first await. A
\* trigger that is not accepted ends the task without a message.
AutoAccepts ==
    /\ insight_settings.enabled
    /\ insight_settings.surprise.enabled
    /\ _compute_surprise_score(insight_settings, job["auto"].events, 1)
         >= insight_settings.surprise.threshold
    /\ ~_is_surprise_cooldown_active(_last_surprise_trigger_ts_ms, insight_settings, clock)
    /\ ~_is_insight_cooldown_active(_last_insight_ts_ms, insight_settings, clock)
    /\ _find_trigger_frame(_frames, job["auto"].trigger_frame_id) # NoFrame

\* run_auto_insight returns None or raises before the trigger is accepted:
\* process_auto_insight returns, or prints the error, and the task is done.
AutoSkipped_SendsError ==
    /\ send_payload("auto", make_error("INSIGHT_COOLDOWN", None), send_lock, pc, payload)
    /\ UNCHANGED job
AutoSkipped ==
    /\ pc' = [pc EXCEPT !["auto"] = "done"]
    /\ UNCHANGED <<payload, send_lock, job>>

AutoStart ==
    /\ pc["auto"] = "created"
    /\ IF AutoAccepts
       THEN /\ _last_surprise_trigger_ts_ms' = clock
            /\ _last_insight_ts_ms' = clock
            /\ RequestInsight("auto", _find_trigger_frame(_frames, job["auto"].trigger_frame_id),
                              clock, "clip_wait")
       ELSE /\ AutoSkipped
            /\ UNCHANGED <<_last_surprise_trigger_ts_ms, _last_insight_ts_ms>>
    /\ UNCHANGED <<service, tracking_settings, insight_settings, clock, _frames, _next_seq,
                   _frame_event, pending_frame, pending_frame_event, inference_running,
                   frame, in_worker, processed, frame_msgs>>
    /\ NothingLogged
    /\ UNCHANGED <<engine_vars, asset_vars>>

\* The wait of _build_clip for a post-frame ends: by the frame event, and the
\* post-frames are collected again, or by the deadline, and they are not.
ClipWake(t, timed_out) ==
    /\ pc[t] = "clip_wait"
    /\ timed_out \/ _frame_event
    /\ _frame_event' = FALSE
    /\ IF timed_out
       THEN CallAgent(t, job[t])
       ELSE LET j == [job[t] EXCEPT !.post_frames =
                        _collect_post_frames(_frames, job[t].trigger.seq, job[t].post_target)]
            IN  IF Len(j.post_frames) < j.post_target
                THEN /\ job' = [job EXCEPT ![t] = j]
                     /\ UNCHANGED <<pc, payload, send_lock>>
                ELSE CallAgent(t, j)
    /\ UNCHANGED <<service, tracking_settings, insight_settings, clock, _frames, _next_seq,
                   _last_insight_ts_ms, _last_surprise_trigger_ts_ms, pending_frame,
                   pending_frame_event, inference_running, frame, in_worker, processed,
                   frame_msgs>>
    /\ NothingLogged
    /\ UNCHANGED <<engine_vars, asset_vars>>

\* The vision agent answers, or the request fails.
AgentOutcomes == {"ok", "VISION_AGENT_TIMEOUT"}

AgentDone(t, outcome) ==
    /\ pc[t] = "agent"
    /\ IF outcome = "ok"
       THEN /\ send_payload(t, Msg("insight", None, job[t].trigger.frame_id),
                            send_lock, pc, payload)
            /\ UNCHANGED job
       ELSE InsightFail(t, outcome)
    /\ UNCHANGED <<service, tracking_settings, insight_settings, clock, _frames, _next_seq,
                   _frame_event, _last_insight_ts_ms, _last_surprise_trigger_ts_ms,
                   pending_frame, pending_frame_event, inference_running, frame, in_worker,
                   processed, frame_msgs>>
    /\ NothingLogged
    /\ UNCHANGED <<engine_vars, asset_vars>>

\* ------------------------------------------------------------------------
\* One connection of quickvision or of vision
\* ------------------------------------------------------------------------
FrameIds == {"f1"}
ConnDetLists == {<<>>} \cup {<<Det(1, "person", p)>> : p \in RoiPoints}

InitConnEngine ==
    /\ roi_settings = [DisabledRoi EXCEPT !.enabled = TRUE]
    /\ motion_settings = DisabledMotion
    /\ collision_settings = DisabledCollision
    /\ abandoned_settings = DisabledAbandoned
    /\ InitEngineState

\* --- Scheduling: the slot, the worker and the send lock, insights disabled.
InitConn ==
    /\ service \in {"quickvision", "vision"}
    /\ tracking_settings \in
         IF service = "vision" THEN {DefaultTracking}
         ELSE {[enabled |-> e, busy_policy |-> p] : e \in BOOLEAN, p \in {"latest", "drop"}}
    /\ insight_settings = DisabledInsights
    /\ InitConnState
    /\ InitConnEngine

NextConn ==
    \/ Tick
    \/ \E b \in BinaryPayloads :
           /\ decode_binary_frame_envelope(b) # "BinaryFrameParseError" => _next_seq <= MaxFrames
           /\ RecvBinary(b)
    \/ RecvInsightTest
    \/ \E code \in RecvErrorCodes : RecvError(code)
    \/ WorkerWake
    \/ \E outcome \in FrameOutcomes, detections \in ConnDetLists :
           InferDone(outcome, detections)
    \/ \E t \in Tasks : AcquireLock(t)
    \/ \E t \in Tasks, ok \in BOOLEAN : WriteDone(t, ok)
    \/ ManualStart

SpecConn == InitConn /\ [][NextConn]_vars

\* --- Insights: the manual and the auto-insight task next to the worker.
ConnInsights ==
    [DisabledInsights EXCEPT !.enabled = TRUE, !.surprise.enabled = TRUE,
                             !.surprise.weights = [n \in {"roi_enter", "line_cross",
                                                          "scene_change"} |-> 3]]

InsightDetLists == {<<>>, <<Det(1, "person", <<200, 200>>)>>}

InitInsight ==
    /\ service = "quickvision"
    /\ tracking_settings = [enabled |-> TRUE, busy_policy |-> "latest"]
    /\ insight_settings \in {ConnInsights, [ConnInsights EXCEPT !.enabled = FALSE]}
    /\ InitConnState
    /\ InitConnEngine

NextInsight ==
    \/ Tick
    \/ \E frame_id \in FrameIds : _next_seq <= MaxInsightFrames /\ RecvFrame(frame_id)
    \/ RecvInsightTest
    \/ RecvError("INVALID_JSON")
    \/ WorkerWake
    \/ \E outcome \in {"ok", "error"}, detections \in InsightDetLists :
           InferDone(outcome, detections)
    \/ \E t \in Tasks : AcquireLock(t)
    \/ \E t \in Tasks, ok \in BOOLEAN : WriteDone(t, ok)
    \/ ManualStart
    \/ AutoStart
    \/ \E t \in InsightTasks, timed_out \in BOOLEAN : ClipWake(t, timed_out)
    \/ \E t \in InsightTasks, outcome \in AgentOutcomes : AgentDone(t, outcome)

SpecInsight == InitInsight /\ [][NextInsight]_vars

\* The client may reuse a frame_id.
AutoFrameIds == {"f1", "f2"}

\* --- Auto-insights alone: the worker and the auto-insight task, the client
\* sending frames only.
NextAuto ==
    \/ Tick
    \/ \E frame_id \in AutoFrameIds : _next_seq <= MaxFrames /\ RecvFrame(frame_id)
    \/ WorkerWake
    \/ \E outcome \in {"ok", "error"}, detections \in ConnDetLists :
           InferDone(outcome, detections)
    \/ \E t \in Tasks : AcquireLock(t)
    \/ \E t \in Tasks, ok \in BOOLEAN : WriteDone(t, ok)
    \/ AutoStart
    \/ \E timed_out \in BOOLEAN : ClipWake("auto", timed_out)
    \/ \E outcome \in AgentOutcomes : AgentDone("auto", outcome)

InitAuto == InitInsight /\ insight_settings.enabled

SpecAuto == InitAuto /\ [][NextAuto]_vars

\* --- The clip builder alone: frames are added to the buffer and
\* _request_insight is called with any buffered frame as trigger.
HARD_MAX_INSIGHT_FRAMES == 6

\* Settings whose pre_frames is not clamped to max_frames - 1.
ClipSettings_PreUnclamped ==
    {[ConnInsights EXCEPT !.max_frames = Max(1, Min(m, HARD_MAX_INSIGHT_FRAMES)),
                          !.pre_frames = a,
                          !.post_frames = Min(b, Max(1, Min(m, HARD_MAX_INSIGHT_FRAMES)) - 1)] :
       m \in 0..3, a \in 0..2, b \in 0..2}

\* load_insight_settings: max_frames, pre_frames and post_frames after the clamps.
ClipSettings ==
    {[ConnInsights EXCEPT !.max_frames = Max(1, Min(m, HARD_MAX_INSIGHT_FRAMES)),
                          !.pre_frames = Min(a, Max(1, Min(m, HARD_MAX_INSIGHT_FRAMES)) - 1),
                          !.post_frames = Min(b, Max(1, Min(m, HARD_MAX_INSIGHT_FRAMES)) - 1)] :
       m \in 0..3, a \in 0..2, b \in 0..2}

InitClip ==
    /\ service = "quickvision"
    /\ tracking_settings = [enabled |-> TRUE, busy_policy |-> "latest"]
    /\ insight_settings \in ClipSettings
    /\ InitConnState
    /\ InitConnEngine

\* InsightBuffer.add_frame
add_frame(frame_id) ==
    /\ _frames' = DequeAppend(_frames, [seq |-> _next_seq, frame_id |-> frame_id],
                              FRAME_BUFFER_MAXLEN)
    /\ _next_seq' = _next_seq + 1
    /\ _frame_event' = TRUE
    /\ UNCHANGED <<service, tracking_settings, insight_settings, clock,
                   _last_insight_ts_ms, _last_surprise_trigger_ts_ms, pending_frame,
                   pending_frame_event, inference_running, send_lock, pc, payload, frame,
                   job, in_worker, processed, frame_msgs>>
    /\ NothingLogged
    /\ UNCHANGED <<engine_vars, asset_vars>>

\* _request_insight(trigger) is called by the manual task.
BuildClip(trigger) ==
    /\ pc["manual"] \in {"none", "done"}
    /\ RequestInsight("manual", trigger, clock, "clip_wait")
    /\ UNCHANGED <<service, tracking_settings, insight_settings, clock, _frames, _next_seq,
                   _frame_event, _last_insight_ts_ms, _last_surprise_trigger_ts_ms,
                   pending_frame, pending_frame_event, inference_running, frame, in_worker,
                   processed, frame_msgs>>
    /\ NothingLogged
    /\ UNCHANGED <<engine_vars, asset_vars>>

NextClip ==
    \/ \E frame_id \in FrameIds : _next_seq <= MaxClipFrames /\ add_frame(frame_id)
    \/ \E i \in 1..Len(_frames) : BuildClip(_frames[i])
    \/ \E timed_out \in BOOLEAN : ClipWake("manual", timed_out)
    \/ \E outcome \in AgentOutcomes : AgentDone("manual", outcome)
    \/ \E ok \in BOOLEAN : WriteDone("manual", ok)

SpecClip == InitClip /\ [][NextClip]_vars

\* --- The frame buffer alone: more frames are added than the buffer holds.
InitBuffer ==
    /\ service = "quickvision"
    /\ tracking_settings = DefaultTracking
    /\ insight_settings = ConnInsights
    /\ InitConnState
    /\ InitConnEngine

NextBuffer == \E frame_id \in FrameIds : _next_seq <= MaxBufferFrames /\ add_frame(frame_id)

SpecBuffer == InitBuffer /\ [][NextBuffer]_vars

\* ------------------------------------------------------------------------
\* The claims about the connection
\* ------------------------------------------------------------------------
LatestSubmitted == _next_seq - 1

\* The frame submitted last is in the slot, in the worker or processed.
LatestNotLost ==
    LatestSubmitted >= 1 =>
        \/ pending_frame.seq = LatestSubmitted
        \/ LatestSubmitted \in in_worker
        \/ LatestSubmitted \in processed

\* C2: under busy_policy = "latest" at most one frame is inside the worker,
\* and the frame submitted last is never lost: it is in the pending slot, in
\* the worker or already processed.
C2_LatestNeverLost ==
    (service = "quickvision" /\ tracking_settings.busy_policy = "latest") =>
        /\ Cardinality(in_worker) <= 1
        /\ LatestNotLost

\* C3: whenever an insight message is written after an earlier one, at least
\* insight_cooldown_ms lies between the two writes.
C3_InsightCooldown ==
    insight_gap # NoneInt => insight_gap >= insight_settings.insight_cooldown_ms

\* C9: a frame the worker has finished got exactly one payload: the
\* detections (frame_events) message, or an INVALID_IMAGE or INFERENCE_ERROR
\* error carrying the frame's id.
C9_OneMessagePerFrame ==
    finished # NoFinished =>
        /\ Len(finished.msgs) = 1
        /\ finished.msgs[1].frame_id = finished.frame_id
        /\ \/ finished.msgs[1].type \in {"detections", "frame_events"}
           \/ /\ finished.msgs[1].type = "error"
              /\ finished.msgs[1].code \in {"INVALID_IMAGE", "INFERENCE_ERROR"}

\* The second frame finishes with a decode error after the first was answered.
C9_Witness ==
    /\ finished.seq = 2
    /\ 1 \in processed
    /\ finished.msgs[1].code = "INVALID_IMAGE"

Writers == {t \in Tasks : pc[t] = "writing"}

\* C10: at most one task is inside websocket.send_json, and the task that is
\* holds the send lock.
C10_SendLockExclusive ==
    /\ Cardinality(Writers) <= 1
    /\ \A t \in Writers : send_lock = t

\* One task writes while two others wait for the send lock.
C10_Witness ==
    /\ Writers # {}
    /\ Cardinality({t \in Tasks : pc[t] = "lock_wait"}) >= 2

\* ------------------------------------------------------------------------
\* The order of the events of one frame
\* ------------------------------------------------------------------------
\* The engine an event comes from: 1 ROI/line, 2 motion, 3 collision, 4 abandoned.
EngineRank(e) ==
    IF e.name \in {"roi_enter", "roi_exit", "roi_dwell", "line_cross"} THEN 1
    ELSE IF e.name \in {"sudden_motion", "track_stop"} THEN 2
    ELSE IF e.name = "near_collision" THEN 3
    ELSE 4

\* C11: in the event list of one frame all ROI/line events precede all motion
\* events, which precede all collision events, which precede all abandoned
\* events.
C11_EngineOrder ==
    \A i, j \in 1..Len(last_events) :
        i < j => EngineRank(last_events[i]) <= EngineRank(last_events[j])

\* ------------------------------------------------------------------------
\* The pending slot under the two policies
\* ------------------------------------------------------------------------
\* The step is the receive loop taking a validly decoded binary frame.
FrameReceived == _next_seq' = _next_seq + 1

\* C12: under busy_policy = "latest" a received frame overwrites the pending
\* slot and is not answered with a BUSY error, whatever inference_running and
\* tracking.enabled are.
C12_LatestOverwrites ==
    [][(service = "quickvision" /\ tracking_settings.busy_policy = "latest" /\ FrameReceived)
         => /\ pending_frame'.seq = _next_seq
            /\ payload'["recv"].code # "BUSY"]_vars

\* The slot drops: the vision service, or quickvision with busy_policy = "drop".
DropPolicy == service = "vision" \/ tracking_settings.busy_policy = "drop"

\* C13: under the drop policy a frame received while the worker runs or the
\* slot is occupied gets one BUSY error with its frame_id and leaves the slot
\* and the worker untouched; a frame received when the worker is idle and the
\* slot empty is placed in the slot without a BUSY error.
C13_DropPolicy ==
    [][(DropPolicy /\ FrameReceived) =>
         IF inference_running \/ pending_frame # NoFrame
         THEN /\ payload'["recv"] = make_error("BUSY", _frames'[Len(_frames')].frame_id)
              /\ pc'["recv"] \in {"lock_wait", "writing"}
              /\ UNCHANGED <<pending_frame, pending_frame_event, inference_running, frame>>
              /\ pc'["worker"] = pc["worker"]
         ELSE /\ pending_frame' = _frames'[Len(_frames')]
              /\ pending_frame_event'
              /\ pc'["recv"] = "receive"
              /\ UNCHANGED payload]_vars

\* Under busy_policy = "drop" frame 2 was dropped with BUSY while the worker
\* ran frame 1, and the slot stayed empty.
C13_Witness ==
    /\ service = "quickvision" /\ tracking_settings.busy_policy = "drop"
    /\ payload["recv"] = make_error("BUSY", "f1")
    /\ inference_running /\ in_worker = {1}
    /\ pending_frame = NoFrame
    /\ LatestSubmitted = 2

\* ------------------------------------------------------------------------
\* The insight tasks
\* ------------------------------------------------------------------------
InFlight(t) == pc[t] \notin {"none", "done"}

\* C14: at most one auto-insight task is in flight: the step of process_frame
\* after its send leaves an auto-insight task that is in flight alone, and a
\* task is created only when the previous one is absent or done.
C14_OneAutoTask ==
    [][/\ (\E ok \in BOOLEAN : WriteDone("worker", ok)) /\ InFlight("auto")
          => UNCHANGED <<pc["auto"], job["auto"]>>
       /\ (pc'["auto"] = "created" /\ pc["auto"] # "created")
          => ~InFlight("auto")]_vars

\* The worker has finished frame 2 with events while the auto-insight task
\* created for frame 1 is still in flight, and no task was created.
C14_Witness ==
    /\ finished.seq = 2
    /\ finished.msgs[1].type = "detections"
    /\ last_events # <<>>
    /\ pc["auto"] \in {"clip_wait", "agent", "lock_wait", "writing"}

\* C15: an insight_test command received while a manual-insight task is in
\* flight is answered with an INSIGHT_BUSY error and leaves that task alone;
\* a manual task is created only when the previous one is absent or done.
C15_InsightBusy ==
    [][/\ (RecvInsightTest /\ InFlight("manual"))
          => /\ payload'["recv"] = make_error("INSIGHT_BUSY", None)
             /\ pc'["recv"] \in {"lock_wait", "writing"}
             /\ UNCHANGED <<pc["manual"], job["manual"]>>
       /\ (pc'["manual"] = "created" /\ pc["manual"] # "created")
          => ~InFlight("manual")]_vars

\* INSIGHT_BUSY is being sent while the manual task waits for the vision agent.
C15_Witness ==
    /\ payload["recv"] = make_error("INSIGHT_BUSY", None)
    /\ pc["manual"] = "agent"

\* process_insight_test reports code to the client: the error is handed to
\* send_payload, the agent is not called and the cooldown stamp is not moved.
ManualFails(code) ==
    /\ payload'["manual"] = make_error(code, None)
    /\ pc'["manual"] \in {"lock_wait", "writing"}
    /\ job'["manual"] = NoJob
    /\ UNCHANGED _last_insight_ts_ms

InsightCooldownRunning ==
    /\ _last_insight_ts_ms # NoneInt
    /\ clock - _last_insight_ts_ms < insight_settings.insight_cooldown_ms

\* The errors of a manual insight_test, wherever insights are enabled or not.
ManualFailures ==
    /\ _frames = <<>> => ManualFails("NO_TRIGGER_FRAME")
    /\ InsightCooldownRunning => ManualFails("INSIGHT_COOLDOWN")

\* A manual task that reports one of the two errors is on its way to the
\* client and nowhere else.
ManualErrorOnlySent ==
    payload["manual"].code \in {"NO_TRIGGER_FRAME", "INSIGHT_COOLDOWN"}
        => pc["manual"] \in {"lock_wait", "writing"}

\* C16 as stated: a manual insight_test fails with NO_TRIGGER_FRAME when the
\* buffer is empty and with INSIGHT_COOLDOWN when the cooldown is active; the
\* error is sent, no agent call is made, the last-insight timestamp stays.
C16_ManualFailures_AsStated ==
    [][(ManualStart => ManualFailures) /\ ManualErrorOnlySent']_vars

\* C16, amended: the same, for a connection whose insights are enabled.
C16_ManualFailures ==
    [][insight_settings.enabled
         => (ManualStart => ManualFailures) /\ ManualErrorOnlySent']_vars

\* The second insight_test was refused inside the cooldown of the first.
C16_Witness ==
    /\ insight_settings.enabled
    /\ payload["manual"] = make_error("INSIGHT_COOLDOWN", None)
    /\ InsightCooldownRunning
    /\ _frames # <<>>

\* C17: the trigger frame of an auto-insight is the frame whose events
\* scheduled it, also when frames share a frame_id or arrive during inference.
C17_TriggerIsProcessedFrame ==
    job["auto"].trigger # NoFrame => job["auto"].trigger.seq = job["auto"].frame_seq

\* ------------------------------------------------------------------------
\* The clip and the frame buffer
\* ------------------------------------------------------------------------
\* The clip _build_clip has returned to task t, which now calls the agent.
ReturnedClip(t) == Clip(insight_settings, job[t])

\* clip is pre-frames, the trigger at position k, post-frames: the pre-frames
\* are the latest buffered frames before the trigger, the post-frames the
\* earliest after it, and the bounds of the settings are kept.
ClipWellFormed(clip, trigger, config, k) ==
    /\ clip[k] = trigger
    /\ k - 1 = Min(config.pre_frames, Cardinality({i \in 1..Len(_frames) :
                                                     _frames[i].seq < trigger.seq}))
    /\ Len(clip) - k <= config.post_frames
    /\ Len(clip) <= config.max_frames
    /\ \A i \in 1..Len(clip) :
           /\ clip[i].seq = trigger.seq + (i - k)
           /\ \E n \in 1..Len(_frames) : _frames[n] = clip[i]

\* C18: a clip returned by _build_clip is at most pre_frames frames before
\* the trigger (the latest ones), the trigger, at most post_frames frames
\* after it (the earliest ones), in arrival order, at most max_frames long.
C18_ClipShape ==
    \A t \in InsightTasks :
        pc[t] = "agent" =>
            \E k \in 1..Len(ReturnedClip(t)) :
                ClipWellFormed(ReturnedClip(t), job[t].trigger, insight_settings, k)

\* A clip of three frames around the second of three buffered frames.
C18_Witness ==
    /\ pc["manual"] = "agent"
    /\ Len(_frames) = 3
    /\ job["manual"].trigger.seq = 2
    /\ Len(ReturnedClip("manual")) = 3
    /\ insight_settings.pre_frames = 1 /\ insight_settings.post_frames = 1

\* The number of add_frame calls so far.
FramesAdded == _next_seq - 1

\* C19: after n add_frame calls the buffer holds the most recent min(n, 128)
\* frames in arrival order, and the n-th added frame has seq n.
C19_BufferKeepsNewest ==
    /\ Len(_frames) = Min(FramesAdded, FRAME_BUFFER_MAXLEN)
    /\ \A i \in 1..Len(_frames) : _frames[i].seq = FramesAdded - Len(_frames) + i

\* The buffer is full and frames 1 and 2 have been evicted.
C19_Witness ==
    /\ FramesAdded = FRAME_BUFFER_MAXLEN + 2
    /\ Len(_frames) = FRAME_BUFFER_MAXLEN
    /\ _frames[1].seq = 3

\* ------------------------------------------------------------------------
\* Bad envelopes
\* ------------------------------------------------------------------------
\* The envelopes the protocol rejects: fewer than four bytes, L = 0, L larger
\* than what follows, bad metadata, or an image of another length than declared.
BadEnvelope(b) ==
    \/ b.len < 4
    \/ b.L = 0
    \/ b.L > b.len - 4
    \/ b.meta # "ok"
    \/ b.len - 4 - b.L # b.image_bytes

\* C20: a binary payload that fails envelope decoding is answered with one
\* INVALID_FRAME_BINARY error and leaves the frame buffer, its next seq and
\* the pending slot alone; the receive loop then receives again, and a valid
\* frame is buffered as always.
C20_BadEnvelope ==
    [][/\ \A b \in BinaryPayloads :
            RecvBinary(b) =>
                IF BadEnvelope(b)
                THEN /\ payload'["recv"] = make_error("INVALID_FRAME_BINARY", None)
                     /\ pc'["recv"] \in {"lock_wait", "writing"}
                     /\ UNCHANGED <<_frames, _next_seq, _frame_event, pending_frame,
                                    pending_frame_event>>
                ELSE /\ _frames' = Append(_frames, [seq |-> _next_seq, frame_id |-> b.frame_id])
                     /\ _next_seq' = _next_seq + 1
       /\ (pc["recv"] = "writing" /\ pc'["recv"] # "writing") => pc'["recv"] = "receive"]_vars

\* INVALID_FRAME_BINARY is being written while frame 1 waits in the slot.
C20_Witness ==
    /\ payload["recv"] = make_error("INVALID_FRAME_BINARY", None)
    /\ pc["recv"] = "writing"
    /\ pending_frame.seq = 1
    /\ _next_seq = 2

\* ------------------------------------------------------------------------
\* The failures of an auto-insight
\* ------------------------------------------------------------------------
SurpriseCooldownRunning ==
    /\ _last_surprise_trigger_ts_ms # NoneInt
    /\ clock - _last_surprise_trigger_ts_ms < insight_settings.surprise.cooldown_ms

\* The attempt ends with INSIGHTS_DISABLED, by a cooldown or without a trigger frame.
AutoSuppressed ==
    \/ ~insight_settings.enabled
    \/ InsightCooldownRunning
    \/ SurpriseCooldownRunning
    \/ _frames = <<>>

\* C21: an auto-insight attempt that ends because insights are disabled, a
\* cooldown is active or no trigger frame exists sends nothing to the client:
\* the task is done without a payload and without an agent call.
C21_AutoSuppressedSilently ==
    [][(AutoStart /\ AutoSuppressed)
         => /\ pc'["auto"] = "done"
            /\ payload'["auto"] = NoMsg
            /\ UNCHANGED <<payload, send_lock>>]_vars

\* The auto-insight scheduled by frame 2 has ended inside the insight
\* cooldown of an earlier trigger, without a trigger frame chosen.
C21_Witness ==
    /\ pc["auto"] = "done"
    /\ job["auto"].frame_seq = 2
    /\ job["auto"].trigger = NoFrame
    /\ _compute_surprise_score(insight_settings, job["auto"].events, 1)
         >= insight_settings.surprise.threshold
    /\ InsightCooldownRunning
    /\ payload["auto"] = NoMsg

\* C22: when the vision agent fails an auto-insight (VISION_AGENT_TIMEOUT),
\* an error message with that code is handed to the connection for the client.
C22_AutoFailureReported ==
    [][AgentDone("auto", "VISION_AGENT_TIMEOUT")
         => /\ payload'["auto"] = make_error("VISION_AGENT_TIMEOUT", None)
            /\ pc'["auto"] \in {"lock_wait", "writing"}]_vars

\* ------------------------------------------------------------------------
\* Shutdown of a connection: the finally block of infer_socket
\* ------------------------------------------------------------------------
\* Task.cancel(): the task stays at its await, and its next step raises
\* CancelledError there instead of resuming it.
CancelledAt(p) ==
    CASE p = "wait_event" -> "x_wait_event"
      [] p = "infer" -> "x_infer"
      [] p = "created" -> "x_created"
      [] p = "clip_wait" -> "x_clip_wait"
      [] p = "agent" -> "x_agent"
      [] p = "lock_wait" -> "x_lock_wait"
      [] p = "writing" -> "x_writing"
CancelPending == {"x_wait_event", "x_infer", "x_created", "x_clip_wait", "x_agent",
                  "x_lock_wait", "x_writing"}

\* task is None or task.done()
TaskOver(p) == p \in {"none", "done", "cancelled"}

ShutdownOrder == <<"worker", "manual", "auto">>
AwaitOf(t) ==
    CASE t = "worker" -> "await_worker" [] t = "manual" -> "await_manual"
      [] t = "auto" -> "await_auto"

\* The finally block from its i-th task on: the tasks that are over are
\* passed, the first one that is not is cancelled and awaited; after the
\* last one the handler returns.
RECURSIVE cancel_tasks(_, _)
cancel_tasks(i, pcs) ==
    IF i > Len(ShutdownOrder) THEN [pcs EXCEPT !["recv"] = "closed"]
    ELSE LET t == ShutdownOrder[i]
         IN  IF TaskOver(pcs[t]) THEN cancel_tasks(i + 1, pcs)
             ELSE [pcs EXCEPT ![t] = CancelledAt(pcs[t]), !["recv"] = AwaitOf(t)]

\* websocket.receive() returns websocket.disconnect: the loop breaks and the
\* finally block runs up to its first await.
Disconnect ==
    /\ pc["recv"] = "receive"
    /\ pc' = cancel_tasks(1, pc)
    /\ UNCHANGED <<service, tracking_settings, insight_settings, clock, _frames, _next_seq,
                   _frame_event, _last_insight_ts_ms, _last_surprise_trigger_ts_ms,
                   pending_frame, pending_frame_event, inference_running, send_lock,
                   payload, frame, job, in_worker, processed, frame_msgs>>
    /\ NothingLogged
    /\ UNCHANGED <<engine_vars, asset_vars>>

\* CancelledError is raised in task t at its await: no handler of the task
\* catches it, "async with send_lock" releases the lock, the finally of
\* inference_worker resets inference_running and the finally of _build_clip
\* clears the frame event.
TaskCancelled(t) ==
    /\ pc[t] \in CancelPending
    /\ pc' = [pc EXCEPT ![t] = "cancelled"]
    /\ send_lock' = IF send_lock = t THEN None ELSE send_lock
    /\ inference_running' =
         IF t = "worker" /\ pc[t] \in {"x_infer", "x_lock_wait", "x_writing"}
         THEN FALSE ELSE inference_running
    /\ _frame_event' = IF pc[t] = "x_clip_wait" THEN FALSE ELSE _frame_event
    /\ in_worker' = IF t = "worker" THEN {} ELSE in_worker
    /\ UNCHANGED <<service, tracking_settings, insight_settings, clock, _frames, _next_seq,
                   _last_insight_ts_ms, _last_surprise_trigger_ts_ms, pending_frame,
                   pending_frame_event, payload, frame, job, processed, frame_msgs>>
    /\ NothingLogged
    /\ UNCHANGED <<engine_vars, asset_vars>>

\* "await task" of the finally block returns for the i-th task, and the block
\* goes on to the next one.
AwaitReturns(i) ==
    /\ pc["recv"] = AwaitOf(ShutdownOrder[i])
    /\ pc[ShutdownOrder[i]] = "cancelled"
    /\ pc' = cancel_tasks(i + 1, pc)
    /\ UNCHANGED <<service, tracking_settings, insight_settings, clock, _frames, _next_seq,
                   _frame_event, _last_insight_ts_ms, _last_surprise_trigger_ts_ms,
                   pending_frame, pending_frame_event, inference_running, send_lock,
                   payload, frame, job, in_worker, processed, frame_msgs>>
    /\ NothingLogged
    /\ UNCHANGED <<engine_vars, asset_vars>>

\* --- A connection with insights that the client closes at any time.
NextShutdown ==
    \/ \E frame_id \in FrameIds : _next_seq <= MaxInsightFrames /\ RecvFrame(frame_id)
    \/ RecvInsightTest
    \/ WorkerWake
    \/ \E outcome \in {"ok", "error"}, detections \in InsightDetLists :
           InferDone(outcome, detections)
    \/ \E t \in Tasks : AcquireLock(t)
    \/ \E t \in Tasks, ok \in BOOLEAN : WriteDone(t, ok)
    \/ ManualStart
    \/ AutoStart
    \/ \E t \in InsightTasks, timed_out \in BOOLEAN : ClipWake(t, timed_out)
    \/ \E t \in InsightTasks, outcome \in AgentOutcomes : AgentDone(t, outcome)
    \/ Disconnect
    \/ \E t \in Tasks : TaskCancelled(t)
    \/ \E i \in 1..Len(ShutdownOrder) : AwaitReturns(i)

SpecShutdown == InitAuto /\ [][NextShutdown]_vars

\* The handler has observed the disconnect.
DisconnectObserved == pc["recv"] \in {"await_worker", "await_manual", "await_auto", "closed"}
\* The task is inside send_payload: waiting for the send lock or writing.
Sending(p) == p \in {"lock_wait", "writing"}

\* C23: after the connection handler has observed a disconnect, none of the
\* inference worker, the manual-insight task and the auto-insight task calls
\* send_payload or starts to write a message, and when the handler returns
\* none of the three tasks is still running.
C23_ShutdownSilent ==
    [][/\ DisconnectObserved =>
            \A t \in {"worker", "manual", "auto"} :
                Sending(pc'[t]) => pc'[t] = pc[t]
       /\ pc'["recv"] = "closed" =>
            \A t \in {"worker", "manual", "auto"} : TaskOver(pc'[t])]_vars

\* An auto-insight trigger was accepted less than insight_cooldown_ms ago.
AutoAcceptedRecently ==
    /\ _last_surprise_trigger_ts_ms # NoneInt
    /\ clock - _last_surprise_trigger_ts_ms < insight_settings.insight_cooldown_ms

\* C24: a manual or auto trigger that is evaluated less than
\* insight_cooldown_ms after an auto-insight trigger was accepted is refused:
\* its task requests no insight, hands no insight message to send_payload and
\* leaves both cooldown stamps as they are.
C24_NoSecondInsight ==
    [][\A t \in InsightTasks :
          (pc[t] = "created" /\ pc'[t] # "created" /\ AutoAcceptedRecently)
            => /\ pc'[t] \notin {"clip_wait", "agent"}
               /\ payload'[t].type # "insight"
               /\ UNCHANGED <<_last_insight_ts_ms, _last_surprise_trigger_ts_ms>>]_vars
C24_Witness ==
    /\ AutoAcceptedRecently
    /\ Sending(pc["manual"])
    /\ payload["manual"] = make_error("INSIGHT_COOLDOWN", None)

\* C25: the auto-insight task of a frame is created in the step in which the
\* write of that frame's detections/frame_events message returns, and only
\* once for the frame; it hands an insight message to send_payload only for
\* a frame whose message was written before, and the write of one message
\* ends the task, so that at most one insight results from the frame.
C25_ReplyBeforeInsight ==
    [][/\ (pc["auto"] # "created" /\ pc'["auto"] = "created")
            => /\ pc["worker"] = "writing"
               /\ payload["worker"].type \in {"detections", "frame_events"}
               /\ payload["worker"].frame_id = frame.frame_id
               /\ finished'.seq = frame.seq
               /\ finished'.msgs # <<>>
               /\ finished'.msgs[Len(finished'.msgs)] = payload["worker"]
               /\ job'["auto"].frame_seq = frame.seq
               /\ frame.seq \notin processed
               /\ frame.seq \in processed'
       /\ (payload'["auto"].type = "insight" /\ payload["auto"].type # "insight")
            => /\ job["auto"].frame_seq \in processed
               /\ Sending(pc'["auto"])
       /\ (pc["auto"] = "writing" /\ pc'["auto"] # "writing")
            => pc'["auto"] = "done"]_vars
C25_Witness ==
    /\ pc["auto"] = "writing"
    /\ payload["auto"].type = "insight"
    /\ job["auto"].frame_seq = 2
    /\ processed = {1, 2}

\* ------------------------------------------------------------------------
\* Claims on single calls of the ROI engine
\* ------------------------------------------------------------------------
\* --- Debounced transitions: one track, outside or inside the zone or not
\* detected, the debounce time one or two steps.
DebounceDetLists == {<<>>} \cup {<<Det(1, "person", p)>> : p \in RoiPoints}

InitDebounce ==
    /\ roi_settings \in {[DisabledRoi EXCEPT !.enabled = TRUE, !.transition_min_ms = m] :
                           m \in {TimeStep, 2 * TimeStep}}
    /\ motion_settings = DisabledMotion
    /\ collision_settings = DisabledCollision
    /\ abandoned_settings = DisabledAbandoned
    /\ InitEngineState
    /\ IdleConnection

NextDebounce ==
    \E d \in RoiDeltas, detections \in DebounceDetLists : Process(now_ts + d, detections)

SpecDebounce == InitDebounce /\ [][NextDebounce]_vars

\* The detections of the frame that carry track track_id.
ObservationsOf(detections, track_id) ==
    {i \in 1..Len(detections) : detections[i].track_id = track_id}
InsideNow(detections, key) ==
    LET i == CHOOSE i \in ObservationsOf(detections, key[1]) : TRUE
    IN  point_in_region(box_centroid(detections[i].box), Regions[key[2]])
CommittedInside(tr, key) ==
    key[1] \in DOMAIN tr /\ Get(tr[key[1]].regions_inside, key[2], FALSE)
PendingSince(tr, key) ==
    IF key[1] \in DOMAIN tr THEN Get(tr[key[1]].region_pending_since_ts_ms, key[2], NoneInt)
    ELSE NoneInt

\* What the call for a frame with no or one observation of the track did
\* for key, given the engine before (tr) and after (tr2) and the events.
DebounceHolds(key, tr, tr2, events, ts_ms, detections) ==
    LET obs == ObservationsOf(detections, key[1])
        emitted == RoiTransitionsOf(events, key) # <<>>
        committed == CommittedInside(tr, key)
        since == PendingSince(tr, key)
    IN
    IF obs = {}
    THEN ~emitted /\ PendingSince(tr2, key) \in {since, NoneInt}
    ELSE LET inside_now == InsideNow(detections, key) IN
         /\ emitted => /\ inside_now # committed
                       /\ since # NoneInt
                       /\ since <= ts_ms - roi_settings.transition_min_ms
                       /\ RoiTransitionsOf(events, key) =
                            <<RoiEvent(IF inside_now THEN "roi_enter" ELSE "roi_exit",
                                       ts_ms, key[1], key[2])>>
         /\ inside_now = committed => ~emitted /\ PendingSince(tr2, key) = NoneInt
         /\ PendingSince(tr2, key) # NoneInt =>
              /\ inside_now # committed
              /\ PendingSince(tr2, key) = (IF since # NoneInt THEN since ELSE ts_ms)

\* C26: with transition_min_ms > 0 a frame emits roi_enter or roi_exit for
\* (T,R) only if its observation of T differs from the committed-inside value
\* and the pending state started at least transition_min_ms earlier; a
\* pending state survives a frame only through an observation that differs
\* from committed-inside, an observation that matches it clears the pending
\* state and emits nothing, and the pending state of a later excursion starts
\* at that excursion's first frame.
C26_DebouncedTransition ==
    [][\A detections \in DebounceDetLists :
          (roi_settings.transition_min_ms > 0 /\ Process(now_ts', detections))
            => \A key \in RegionKeys :
                   DebounceHolds(key, tracks, tracks', last_events', now_ts', detections)]_vars
\* A roi_exit is committed after the debounce time: the track was committed
\* inside by an earlier debounced roi_enter.
C26_Witness ==
    /\ roi_settings.transition_min_ms > 0
    /\ \E i \in 1..Len(last_events) :
           last_events[i].name = "roi_exit" /\ last_events[i].track_id = 1

\* ------------------------------------------------------------------------
\* The scenarios of the specification, run through process
\* ------------------------------------------------------------------------
Frame(ts_ms, detections) == [ts_ms |-> ts_ms, detections |-> detections]

\* The event lists process returns for the frames from the i-th on, the
\* engine being es before it.
RECURSIVE RunFrames(_, _, _, _, _, _, _)
RunFrames(es, rs, ms, cs, as, frames, i) ==
    IF i > Len(frames) THEN <<>>
    ELSE LET r == process(es, rs, ms, cs, as, frames[i].ts_ms, frames[i].detections)
         IN  <<r.events>> \o RunFrames([tracks |-> r.tracks, motion |-> r.motion,
                                        pairs |-> r.pairs, objects |-> r.objects],
                                       rs, ms, cs, as, frames, i + 1)
NewEngine == [tracks |-> EmptyDict, motion |-> EmptyDict, pairs |-> EmptyDict,
              objects |-> EmptyDict]

\* --- S1: region zone, no line, dwell threshold 1000, no debounce; track 7
\* outside, inside, inside, outside.
MaxDwellTick == 6
S1Settings == [DisabledRoi EXCEPT !.enabled = TRUE, !.lines = <<>>,
                                  !.dwell_default_threshold_ms = 1000,
                                  !.transition_min_ms = 0]
S1Frames == <<Frame(0, <<Det(7, "person", <<50, 50>>)>>),
              Frame(500, <<Det(7, "person", <<150, 150>>)>>),
              Frame(1500, <<Det(7, "person", <<150, 150>>)>>),
              Frame(2000, <<Det(7, "person", <<400, 400>>)>>)>>
S1Events == RunFrames(NewEngine, S1Settings, DisabledMotion, DisabledCollision,
                      DisabledAbandoned, S1Frames, 1)

\* The settings of S1 without and with a debounce time, track 7 at the
\* points of S1 or not detected, frames 0, 500 or 1000 ms apart.
DwellDetLists ==
    {<<>>} \cup {<<Det(7, "person", p)>> : p \in {<<50, 50>>, <<150, 150>>, <<400, 400>>}}
DwellDeltas == {0, 500, 1000}

InitDwell ==
    /\ roi_settings \in {[S1Settings EXCEPT !.transition_min_ms = m] : m \in {0, 500}}
    /\ motion_settings = DisabledMotion
    /\ collision_settings = DisabledCollision
    /\ abandoned_settings = DisabledAbandoned
    /\ InitEngineState
    /\ IdleConnection

NextDwell ==
    \E d \in DwellDeltas, detections \in DwellDetLists :
        /\ now_ts + d <= MaxDwellTick * 500
        /\ Process(now_ts + d, detections)

SpecDwell == InitDwell /\ [][NextDwell]_vars

EnterTs(tr, key) ==
    IF key[1] \in DOMAIN tr THEN Get(tr[key[1]].region_enter_ts_ms, key[2], NoneInt)
    ELSE NoneInt
RoiEventsNamed(events, key, name) ==
    SelectSeq(events, LAMBDA e : IsRoiEventOf(e, key) /\ e.name = name)

\* What the call for a frame with no or one observation of the track did for
\* key: the commit time is the timestamp of the frame that emitted roi_enter,
\* and roi_dwell is emitted by the first frame observing the track at least
\* the threshold after it.
DwellHolds(key, tr, tr2, events, ts_ms, detections) ==
    LET commit_before == EnterTs(tr, key)
        commit == EnterTs(tr2, key)
        threshold == dwell_threshold_ms_for_region(roi_settings, key[2])
        due == /\ ObservationsOf(detections, key[1]) # {}
               /\ commit # NoneInt
               /\ ts_ms - commit >= threshold
        first == \/ commit_before # commit
                 \/ tr[key[1]].last_seen_ts_ms - commit < threshold
    IN  /\ commit = (IF RoiEventsNamed(events, key, "roi_enter") # <<>> THEN ts_ms
                     ELSE IF RoiEventsNamed(events, key, "roi_exit") # <<>> THEN NoneInt
                     ELSE commit_before)
        /\ RoiEventsNamed(events, key, "roi_dwell") =
             (IF due /\ first THEN <<DwellEvent(ts_ms, key[1], key[2], ts_ms - commit)>>
              ELSE <<>>)

\* C27: roi_dwell for (T,R) is emitted at the first frame observing T whose
\* timestamp is at least dwell_threshold_ms(R) after the timestamp of the
\* frame that committed roi_enter (with transition_min_ms > 0 the frame of
\* the debounced commit), with dwell_ms that difference; scenario S1 yields
\* roi_enter at 500, roi_dwell with dwell_ms 1000 at 1500, roi_exit at 2000.
C27_DwellFromCommit ==
    [][/\ \A detections \in DwellDetLists :
              Process(now_ts', detections)
                => DwellHolds(<<7, "zone">>, tracks, tracks', last_events', now_ts',
                              detections)
       /\ S1Events = <<<<>>,
                       <<RoiEvent("roi_enter", 500, 7, "zone")>>,
                       <<DwellEvent(1500, 7, "zone", 1000)>>,
                       <<RoiEvent("roi_exit", 2000, 7, "zone")>>>>]_vars
\* Debounce time 500: the track is first observed inside at 500, roi_enter is
\* committed at 1000, and roi_dwell is emitted at 2000 with dwell_ms 1000.
C27_Witness ==
    /\ roi_settings.transition_min_ms = 500
    /\ now_ts = 2000
    /\ last_events = <<DwellEvent(2000, 7, "zone", 1000)>>
    /\ tracks[7].region_enter_ts_ms["zone"] = 1000

\* --- S2: line gate, no region; track 3 above the gate line, then below it.
MaxLineTick == 6
S2Settings == [DisabledRoi EXCEPT !.enabled = TRUE, !.regions = <<>>]
S2Frames == <<Frame(0, <<Det(3, "person", <<200, 200>>)>>),
              Frame(100, <<Det(3, "person", <<200, 50>>)>>)>>
S2Events == RunFrames(NewEngine, S2Settings, DisabledMotion, DisabledCollision,
                      DisabledAbandoned, S2Frames, 1)
\* Side A, then on the line, then side B.
OnLineFrames == <<Frame(0, <<Det(3, "person", <<200, 200>>)>>),
                  Frame(100, <<Det(3, "person", <<200, 100>>)>>),
                  Frame(200, <<Det(3, "person", <<200, 50>>)>>)>>
OnLineEvents == RunFrames(NewEngine, S2Settings, DisabledMotion, DisabledCollision,
                          DisabledAbandoned, OnLineFrames, 1)

\* The settings of S2; track 3 on either side of the line, on it, or not
\* detected, next to a track 4 that stays on side B; frames 0 or 100 ms apart.
LinePoints == {<<200, 200>>, <<200, 50>>, <<200, 100>>}
LineDetLists ==
    {<<>>, <<Det(4, "person", <<200, 50>>)>>}
      \cup {<<Det(3, "person", p)>> : p \in LinePoints}
      \cup {<<Det(3, "person", p), Det(4, "person", <<200, 50>>)>> : p \in LinePoints}
LineDeltas == {0, 100}

InitLine ==
    /\ roi_settings = S2Settings
    /\ motion_settings = DisabledMotion
    /\ collision_settings = DisabledCollision
    /\ abandoned_settings = DisabledAbandoned
    /\ InitEngineState
    /\ IdleConnection

NextLine ==
    \E d \in LineDeltas, detections \in LineDetLists :
        /\ now_ts + d <= MaxLineTick * 100
        /\ Process(now_ts + d, detections)

SpecLine == InitLine /\ [][NextLine]_vars

RecordedSide(tr, track_id, line_name) ==
    IF track_id \in DOMAIN tr THEN Get(tr[track_id].line_side_state, line_name, None)
    ELSE None

\* What the call for a frame did for the track and the line, given the
\* engine before (tr) and after (tr2) and the events of the frame.
LineCrossHolds(track_id, line_name, tr, tr2, events, ts_ms, detections) ==
    LET obs == ObservationsOf(detections, track_id)
        crosses == SelectSeq(events, LAMBDA e : /\ e.name = "line_cross"
                                                /\ e.track_id = track_id
                                                /\ e.data.line = line_name)
        recorded == RecordedSide(tr, track_id, line_name)
    IN
    IF obs = {}
    THEN crosses = <<>> /\ RecordedSide(tr2, track_id, line_name) = recorded
    ELSE LET point == box_centroid(detections[CHOOSE i \in obs : TRUE].box)
             cross == (Lines[line_name].x2 - Lines[line_name].x1)
                        * (point[2] - Lines[line_name].y1)
                      - (Lines[line_name].y2 - Lines[line_name].y1)
                        * (point[1] - Lines[line_name].x1)
             side == IF cross = 0 THEN None ELSE IF cross > 0 THEN "A" ELSE "B"
         IN  /\ crosses =
                  (IF side # None /\ recorded # None /\ side # recorded
                   THEN <<[name |-> "line_cross", ts_ms |-> ts_ms, severity |-> "medium",
                           track_id |-> track_id,
                           data |-> [line |-> line_name,
                                     direction |-> IF recorded = "A" THEN "A->B"
                                                   ELSE "B->A"]]>>
                   ELSE <<>>)
             /\ RecordedSide(tr2, track_id, line_name) =
                  (IF side # None THEN side ELSE recorded)

\* C28: for every track and line a frame emits line_cross exactly when the
\* track's current side is defined and differs from the last defined side
\* recorded for them, with direction "prev->curr"; an observation on the
\* line neither changes the recorded side nor emits, so that A, on the line,
\* B yields one A->B event; for gate the centroid (200,200) is on side A and
\* (200,50) on side B, and scenario S2 yields one line_cross A->B at t=100.
C28_LineCross ==
    [][/\ \A detections \in LineDetLists :
              Process(now_ts', detections)
                => \A t \in {3, 4} :
                       LineCrossHolds(t, "gate", tracks, tracks', last_events', now_ts',
                                      detections)
       /\ line_side(<<200, 200>>, Lines["gate"]) = "A"
       /\ line_side(<<200, 50>>, Lines["gate"]) = "B"
       /\ S2Events = <<<<>>, <<LineCrossEvent(100, 3, "gate", "A", "B")>>>>
       /\ S2Events[2][1].data.direction = "A->B"
       /\ OnLineEvents = <<<<>>, <<>>, <<LineCrossEvent(200, 3, "gate", "A", "B")>>>>]_vars
\* Track 3 was on side A, then on the line, and crosses to side B at t=200.
C28_Witness ==
    /\ now_ts = 200
    /\ RecordedSide(tracks, 3, "gate") = "B"
    /\ last_events = <<[name |-> "line_cross", ts_ms |-> 200, severity |-> "medium",
                        track_id |-> 3,
                        data |-> [line |-> "gate", direction |-> "A->B"]]>>

\* --- S3: two persons, track 1 at the origin, track 2 at 200, 90 and 40 px.
MaxClosingTick == 12
S3Settings == [DisabledCollision EXCEPT !.enabled = TRUE, !.distance_px = 50,
                                        !.closing_speed_px_s = 100,
                                        !.pair_cooldown_ms = 1000]
S3Pair(x) == <<Det(1, "person", <<0, 0>>), Det(2, "person", <<x, 0>>)>>
S3Frames == <<Frame(0, S3Pair(200)), Frame(100, S3Pair(90)), Frame(200, S3Pair(40)),
              Frame(300, S3Pair(200)), Frame(400, S3Pair(40)), Frame(1100, S3Pair(200)),
              Frame(1100, S3Pair(40))>>
S3Events == RunFrames(NewEngine, DisabledRoi, DisabledMotion, S3Settings,
                      DisabledAbandoned, S3Frames, 1)

\* The settings of S3; both tracks, track 1 alone or nobody detected, frames
\* 0, 100 or 500 ms apart.
ClosingDetLists == {<<>>, <<Det(1, "person", <<0, 0>>)>>} \cup {S3Pair(x) : x \in {200, 90, 40}}
ClosingDeltas == {0, 100, 500}

InitClosing ==
    /\ roi_settings = DisabledRoi
    /\ motion_settings = DisabledMotion
    /\ collision_settings = S3Settings
    /\ abandoned_settings = DisabledAbandoned
    /\ InitEngineState
    /\ IdleConnection

NextClosing ==
    \E d \in ClosingDeltas, detections \in ClosingDetLists :
        /\ now_ts + d <= MaxClosingTick * 100
        /\ Process(now_ts + d, detections)

SpecClosing == InitClosing /\ [][NextClosing]_vars

S3Sample(track_id, x) == [track_id |-> track_id, class_name |-> "person", point |-> <<x, 0>>]

\* What the call for a frame did for the pair (1,2), given the pair states
\* before (ps) and after (ps2) and the events of the frame.
ClosingHolds(ps, ps2, events, ts_ms, detections) ==
    LET key == <<1, 2>>
        before == Get(ps, key, NewPairState(ts_ms))
    IN
    IF Len(detections) < 2
    THEN events = <<>> /\ (key \in DOMAIN ps => ps2[key] = ps[key])
    ELSE LET x == box_centroid(detections[2].box)[1]
             advanced == before.last_ts_ms # NoneInt /\ ts_ms > before.last_ts_ms
             closing == IF advanced
                        THEN Rat((before.last_distance_px - x) * 1000,
                                 ts_ms - before.last_ts_ms)
                        ELSE Rat(0, 1)
         IN  /\ ps2[key].last_distance_px = x
             /\ ps2[key].last_ts_ms = ts_ms
             /\ events # <<>> =>
                  /\ events = <<NearCollisionEvent(ts_ms, S3Sample(1, 0), S3Sample(2, x),
                                                   x, closing)>>
                  /\ x <= collision_settings.distance_px
                  /\ advanced
                  /\ (before.last_distance_px - x) * 1000
                       >= collision_settings.closing_speed_px_s * (ts_ms - before.last_ts_ms)
                  /\ \/ before.last_event_ts_ms = NoneInt
                     \/ ts_ms - before.last_event_ts_ms >= collision_settings.pair_cooldown_ms

MaxAbandonTick == 34
S4Settings == [DisabledAbandoned EXCEPT !.enabled = TRUE, !.associate_max_distance_px = 100,
                                        !.associate_min_ms = 1000,
                                        !.abandon_delay_ms = 2000]
S4Detections(near) ==
    <<Det(10, "backpack", <<100, 100>>),
      Det(20, "person", IF near THEN <<100, 100>> ELSE <<500, 500>>)>>
S4Deltas == {0, 100, 200, 600}

InitS4 ==
    /\ roi_settings = DisabledRoi
    /\ motion_settings = DisabledMotion
    /\ collision_settings = DisabledCollision
    /\ abandoned_settings = S4Settings
    /\ InitEngineState
    /\ IdleConnection

\* The first frame is the one of t=0, the later ones 100, 200 or 600 ms
\* apart; the person is near before 1200 and away after it, and at 1200
\* either.
NextS4 ==
    \E d \in S4Deltas, near \in BOOLEAN :
        /\ (d = 0) = (10 \notin DOMAIN objects)
        /\ now_ts + d <= MaxAbandonTick * 100
        /\ now_ts + d < 1200 => near
        /\ now_ts + d > 1200 => ~near
        /\ Process(now_ts + d, S4Detections(near))

SpecS4 == InitS4 /\ [][NextS4]_vars

\* C30: in scenario S4 the frame of t=1200 makes the object Associated and
\* puts it into Abandoning with started_ts=1200 and person 20, and the frame
\* of t=3200 emits abandoned_object with object_track_id=10,
\* person_track_id=20 and abandon_ms >= 2000.
C30_ScenarioS4 ==
    [][/\ (now_ts' = 1200 /\ 10 \in DOMAIN objects) =>
            /\ objects[10].associated_person_id = NoneInt
            /\ objects'[10].abandon_started_ts_ms = 1200
            /\ objects'[10].abandon_person_id = 20
       /\ now_ts' = 3200 =>
            \E i \in 1..Len(last_events') :
                /\ last_events'[i].name = "abandoned_object"
                /\ last_events'[i].data.object_track_id = 10
                /\ last_events'[i].data.person_track_id = 20
                /\ last_events'[i].data.abandon_ms >= 2000]_vars

\* ------------------------------------------------------------------------
\* Claims on single samples of the motion engine
\* ------------------------------------------------------------------------
\* --- The motion engine alone on one track that rests or moves by 150 px,
\* in frames 0, 10 s or more than the TTL apart.
MaxStopTick == 5
StopDetLists == {<<>>, <<Det(1, "person", <<200, 50>>)>>, <<Det(1, "person", <<200, 200>>)>>,
                 <<Det(1, "person", <<200, 50>>), Det(1, "person", <<200, 200>>)>>}
StopDeltas == {0, TimeStep, TRACK_STATE_TTL_MS + TimeStep}

InitStop ==
    /\ roi_settings = DisabledRoi
    /\ motion_settings \in {[DisabledMotion EXCEPT !.enabled = TRUE, !.history_frames = 3,
                                                   !.stop_duration_ms = sd,
                                                   !.event_cooldown_ms = cd] :
                              sd \in {0, TimeStep}, cd \in {0}}
    /\ collision_settings = DisabledCollision
    /\ abandoned_settings = DisabledAbandoned
    /\ InitEngineState
    /\ IdleConnection

NextStop ==
    \E d \in StopDeltas, detections \in StopDetLists :
        /\ now_ts + d <= MaxStopTick * TimeStep
        /\ Process(now_ts + d, detections)

SpecStop == InitStop /\ [][NextStop]_vars

\* The first detection of the track in the frame, as a one-element list.
FirstSampleOf(detections, track_id) ==
    LET own == SelectSeq(detections, LAMBDA x : x.track_id = track_id)
    IN  IF own = <<>> THEN <<>> ELSE <<own[1]>>

\* The speed of the sample of the frame: from the last stored sample of the
\* track to the centroid of the detection; None without a stored sample.
SpeedOfSample(mt, track_id, ts_ms, detection) ==
    IF track_id \notin DOMAIN mt \/ mt[track_id].history = <<>> THEN NoneSpeed
    ELSE _speed_px_s(mt[track_id].history[Len(mt[track_id].history)],
                     MotionSample(ts_ms, box_centroid(detection.box)))

MotionEventsOf(events, track_id) ==
    SelectSeq(events, LAMBDA e : e.name \in {"sudden_motion", "track_stop"}
                                 /\ e.track_id = track_id)

StopWindowOf(mt, track_id) ==
    IF track_id \in DOMAIN mt
    THEN <<mt[track_id].stop_start_ts_ms, mt[track_id].stop_emitted>>
    ELSE <<NoneInt, FALSE>>

\* One call of process seen from the stop window of a track: before and
\* after are the motion states around the call.
StopHolds(track_id, before, after, events, ts_ms, detections) ==
    LET own == FirstSampleOf(detections, track_id)
        stops == CountNamed(events, "track_stop", track_id)
    IN
    IF own = <<>>
    THEN /\ MotionEventsOf(events, track_id) = <<>>
         /\ track_id \in DOMAIN after => StopWindowOf(after, track_id)
                                            = StopWindowOf(before, track_id)
    ELSE LET speed == SpeedOfSample(before, track_id, ts_ms, own[1])
             slow == RatLe(speed, motion_settings.stop_speed_px_s)
         IN  /\ track_id \in DOMAIN after
             /\ stops <= 1
             /\ stops = 1 => /\ speed # NoneSpeed /\ slow
                             /\ ~StopWindowOf(before, track_id)[2]
                             /\ StopWindowOf(after, track_id)[2]
             /\ (speed # NoneSpeed /\ slow /\ StopWindowOf(before, track_id)[2]) =>
                    StopWindowOf(after, track_id) = StopWindowOf(before, track_id)
             /\ (speed # NoneSpeed /\ ~slow) =>
                    /\ stops = 0
                    /\ StopWindowOf(after, track_id) = <<NoneInt, FALSE>>
             /\ speed = NoneSpeed =>
                    /\ MotionEventsOf(events, track_id) = <<>>
                    /\ StopWindowOf(after, track_id) = StopWindowOf(before, track_id)

MaxDupTick == 3
DupDetections == {Det(1, "backpack", <<200, 200>>), Det(2, "person", <<200, 200>>),
                  Det(2, "person", <<200, 50>>), Det(NoneInt, "person", <<200, 200>>)}
DupDetLists == Lists2(DupDetections)
                 \cup {<<Det(2, "person", p), b, Det(1, "backpack", <<200, 200>>)>> :
                          p \in RoiPoints, b \in DupDetections}

InitDup ==
    /\ roi_settings = [DisabledRoi EXCEPT !.enabled = TRUE]
    /\ motion_settings = [DisabledMotion EXCEPT !.enabled = TRUE]
    /\ collision_settings = [DisabledCollision EXCEPT !.enabled = TRUE,
                                                      !.pairs = {<<"backpack", "person">>}]
    /\ abandoned_settings = [DisabledAbandoned EXCEPT !.enabled = TRUE]
    /\ InitEngineState
    /\ IdleConnection

NextDup ==
    \E detections \in DupDetLists :
        /\ now_ts + TimeStep <= MaxDupTick * TimeStep
        /\ Process(now_ts + TimeStep, detections)

SpecDup == InitDup /\ [][NextDup]_vars

\* The detections of a frame that carry a track_id, without those whose
\* track_id an earlier detection of the frame carries.
KeepFirst(detections) ==
    LET I == {i \in 1..Len(detections) :
                /\ detections[i].track_id # NoneInt
                /\ \A j \in 1..(i - 1) : detections[j].track_id # detections[i].track_id}
        RECURSIVE Pick(_)
        Pick(i) == IF i > Len(detections) THEN <<>>
                   ELSE (IF i \in I THEN <<detections[i]>> ELSE <<>>) \o Pick(i + 1)
    IN  Pick(1)

StateKeys(es) ==
    DOMAIN es.tracks \cup DOMAIN es.motion \cup DOMAIN es.objects
        \cup UNION {{k[1], k[2]} : k \in DOMAIN es.pairs}

\* The frame has the effect of its first detections per track_id, and no
\* state is keyed by the absent track_id.
FirstDetectionsHold(before, after, events, ts_ms, detections) ==
    LET r == process(before, roi_settings, motion_settings, collision_settings,
                     abandoned_settings, ts_ms, KeepFirst(detections))
    IN  /\ after = [tracks |-> r.tracks, motion |-> r.motion, pairs |-> r.pairs,
                    objects |-> r.objects]
        /\ events = r.events
        /\ NoneInt \notin StateKeys(after)
        /\ StateKeys(after) \subseteq
               StateKeys(before) \cup {detections[i].track_id : i \in 1..Len(detections)}

\* C32: within one frame only the first detection carrying a given track_id
\* is fed to the ROI, motion, collision and abandoned engines, and a
\* detection without track_id is skipped by all engines and creates or
\* touches no per-track, per-pair or per-object state: the states and the
\* events after the frame are those of the frame without the later
\* duplicates and without the detections that have no track_id.
C32_FirstDetectionOnly ==
    [][\A detections \in DupDetLists :
          Process(now_ts', detections) =>
              FirstDetectionsHold(EngineState,
                                  [tracks |-> tracks', motion |-> motion_tracks',
                                   pairs |-> pair_state', objects |-> objects'],
                                  last_events', now_ts', detections)]_vars

\* A frame whose first detection of person 2 is away from the backpack and
\* whose second is next to it has started the abandonment of an associated
\* backpack.
C32_Witness ==
    /\ 1 \in DOMAIN objects
    /\ objects[1].abandon_started_ts_ms = now_ts
    /\ 2 \in DOMAIN motion_tracks
    /\ motion_tracks[2].history[Len(motion_tracks[2].history)].y = 50

\* ------------------------------------------------------------------------
\* The post-frame wait of _build_clip with two waiters
\* ------------------------------------------------------------------------
\* asyncio.wait_for(self._frame_event.wait(), timeout) schedules the wait as
\* a task of its own where wait_for wraps its argument in a task (Python up
\* to 3.11): Event.wait reads the flag when that task first runs, not when
\* _build_clip calls wait_for. Where wait_for awaits the coroutine in place
\* (Python 3.12), the flag is read in the step of the call, which is the
\* behaviour in which EventWait follows the call at once. A task is at
\*   "clip_enter"  after the call of wait_for, the flag not yet read,
\*   "clip_wait"   blocked on the future Event.wait has appended to the
\*                 waiters of the event,
\*   "clip_woken"  with that future resolved by Event.set, or with the flag
\*                 found set, and not yet resumed.
MaxWaitFrames == 3

WaitSettings == [ConnInsights EXCEPT !.max_frames = 3, !.pre_frames = 0, !.post_frames = 2]

InitWait ==
    /\ service = "quickvision"
    /\ tracking_settings = [enabled |-> TRUE, busy_policy |-> "latest"]
    /\ insight_settings = WaitSettings
    /\ InitConnState
    /\ InitConnEngine

\* The deadline of the wait of a job: loop.time() + timeout_ms / 1000.
Deadline(j) == j.now_ms + insight_settings.timeout_ms

\* InsightBuffer.add_frame, and Event.set resolving the future of every
\* task blocked in Event.wait.
FrameArrives(frame_id) ==
    /\ _frames' = DequeAppend(_frames, [seq |-> _next_seq, frame_id |-> frame_id],
                              FRAME_BUFFER_MAXLEN)
    /\ _next_seq' = _next_seq + 1
    /\ _frame_event' = TRUE
    /\ pc' = [t \in Tasks |-> IF pc[t] = "clip_wait" THEN "clip_woken" ELSE pc[t]]
    /\ UNCHANGED <<service, tracking_settings, insight_settings, clock,
                   _last_insight_ts_ms, _last_surprise_trigger_ts_ms, pending_frame,
                   pending_frame_event, inference_running, send_lock, payload, frame,
                   job, in_worker, processed, frame_msgs>>
    /\ NothingLogged
    /\ UNCHANGED <<engine_vars, asset_vars>>

\* _request_insight(trigger) is called by the manual or the auto task.
StartClip(t, trigger) ==
    /\ pc[t] = "none"
    /\ RequestInsight(t, trigger, clock, "clip_enter")
    /\ UNCHANGED <<service, tracking_settings, insight_settings, clock, _frames, _next_seq,
                   _frame_event, _last_insight_ts_ms, _last_surprise_trigger_ts_ms,
                   pending_frame, pending_frame_event, inference_running, frame, in_worker,
                   processed, frame_msgs>>
    /\ NothingLogged
    /\ UNCHANGED <<engine_vars, asset_vars>>

\* Event.wait reads the flag: it returns at once, or blocks on a new future.
EventWait(t) ==
    /\ pc[t] = "clip_enter"
    /\ pc' = [pc EXCEPT ![t] = IF _frame_event THEN "clip_woken" ELSE "clip_wait"]
    /\ UNCHANGED <<service, tracking_settings, insight_settings, clock, _frames, _next_seq,
                   _frame_event, _last_insight_ts_ms, _last_surprise_trigger_ts_ms,
                   pending_frame, pending_frame_event, inference_running, send_lock,
                   payload, frame, job, in_worker, processed, frame_msgs>>
    /\ NothingLogged
    /\ UNCHANGED <<engine_vars, asset_vars>>

\* wait_for returns: the event is cleared and the post-frames are collected
\* again; the loop ends with enough post-frames or past the deadline, and
\* calls wait_for again otherwise.
WaitReturns(t) ==
    /\ pc[t] = "clip_woken"
    /\ _frame_event' = FALSE
    /\ LET j == [job[t] EXCEPT !.post_frames =
                   _collect_post_frames(_frames, job[t].trigger.seq, job[t].post_target)]
       IN  IF Len(j.post_frames) < j.post_target /\ clock < Deadline(j)
           THEN /\ job' = [job EXCEPT ![t] = j]
                /\ pc' = [pc EXCEPT ![t] = "clip_enter"]
                /\ UNCHANGED <<payload, send_lock>>
           ELSE CallAgent(t, j)
    /\ UNCHANGED <<service, tracking_settings, insight_settings, clock, _frames, _next_seq,
                   _last_insight_ts_ms, _last_surprise_trigger_ts_ms, pending_frame,
                   pending_frame_event, inference_running, frame, in_worker, processed,
                   frame_msgs>>
    /\ NothingLogged
    /\ UNCHANGED <<engine_vars, asset_vars>>

\* wait_for raises TimeoutError at the deadline: the event is cleared and the
\* loop ends with the post-frames of the last collection.
WaitTimeout(t) ==
    /\ pc[t] \in {"clip_enter", "clip_wait"}
    /\ clock >= Deadline(job[t])
    /\ _frame_event' = FALSE
    /\ CallAgent(t, job[t])
    /\ UNCHANGED <<service, tracking_settings, insight_settings, clock, _frames, _next_seq,
                   _last_insight_ts_ms, _last_surprise_trigger_ts_ms, pending_frame,
                   pending_frame_event, inference_running, frame, in_worker, processed,
                   frame_msgs>>
    /\ NothingLogged
    /\ UNCHANGED <<engine_vars, asset_vars>>

NextWait ==
    \/ Tick
    \/ \E frame_id \in FrameIds : _next_seq <= MaxWaitFrames /\ FrameArrives(frame_id)
    \/ \E t \in InsightTasks, i \in 1..Len(_frames) : StartClip(t, _frames[i])
    \/ \E t \in InsightTasks : EventWait(t)
    \/ \E t \in InsightTasks : WaitReturns(t)
    \/ \E t \in InsightTasks : WaitTimeout(t)

SpecWait == InitWait /\ [][NextWait]_vars

\* C33: no frame arrival is missed because the shared arrival event was
\* cleared, also when the manual and the auto task wait on the same buffer:
\* a task blocked in the wait before its deadline has collected every
\* post-frame of its clip that the buffer holds, so that it returns with the
\* requested number of post-frames whenever that many arrive before the
\* deadline.
C33_NoArrivalMissed ==
    \A t \in InsightTasks :
        (pc[t] = "clip_wait" /\ clock < Deadline(job[t])) =>
            job[t].post_frames
                = _collect_post_frames(_frames, job[t].trigger.seq, job[t].post_target)

\* ------------------------------------------------------------------------
\* The clip assets of the vision service (eva/vision/app/insights.py)
\* ------------------------------------------------------------------------
\* --- Clips are persisted into a directory in which other writers create
\* and touch clip directories, with an st_mtime of 0 or in the future.
MaxPruneHours == 1
ClipIds == {"a", "b", "c"}
Mtimes == {0, (MaxPruneHours + 1) * 3600}

\* The directories for which shutil.rmtree raises OSError: none, or all.
RemovalErrors == {{}, ClipIds}

\* time.time() in seconds
now_seconds == clock \div 1000

PruneSettings ==
    {[ConnInsights EXCEPT !.assets = [max_clips |-> c, max_age_hours |-> h]] :
       c \in {1, 2}, h \in {0, 1}}

InitPrune ==
    /\ service = "vision"
    /\ tracking_settings = DefaultTracking
    /\ insight_settings \in PruneSettings
    /\ InitConnState
    /\ InitConnEngine

\* The lists that list.sort(key = mtime, reverse = True) can return for the
\* directory: iterdir yields the entries in arbitrary order, and the sort
\* keeps that order among equal mtimes.
SortedOrders(dirs) ==
    LET n == Cardinality(DOMAIN dirs) IN
    {s \in [1..n -> DOMAIN dirs] :
        /\ \A i, j \in 1..n : i < j => (s[i] # s[j] /\ dirs[s[i]] >= dirs[s[j]])}

\* _prune_asset_dirs without the test for the current clip directory in the
\* loop over the positions.
_prune_asset_dirs_PrunesCurrent(dirs, clip_dirs_with_mtime, current, assets, now, failing) ==
    LET cutoff_seconds == now - assets.max_age_hours * 3600
        aged == {d \in DOMAIN dirs : d # current /\ dirs[d] < cutoff_seconds}
        beyond == {clip_dirs_with_mtime[i] :
                     i \in {k \in 1..Len(clip_dirs_with_mtime) : k - 1 >= assets.max_clips}}
        prune_targets == aged \cup beyond
    IN  [d \in DOMAIN dirs \ (prune_targets \ failing) |-> dirs[d]]

\* _prune_asset_dirs on the sorted list clip_dirs_with_mtime: the directory
\* left behind when shutil.rmtree raises OSError for the targets in failing.
_prune_asset_dirs(dirs, clip_dirs_with_mtime, current, assets, now, failing) ==
    LET cutoff_seconds == now - assets.max_age_hours * 3600
        aged == {d \in DOMAIN dirs : d # current /\ dirs[d] < cutoff_seconds}
        beyond == {clip_dirs_with_mtime[i] :
                     i \in {k \in 1..Len(clip_dirs_with_mtime) : k - 1 >= assets.max_clips}}
                    \ {current}
        prune_targets == aged \cup beyond
    IN  [d \in DOMAIN dirs \ (prune_targets \ failing) |-> dirs[d]]

\* _persist_clip_frames: the clip directory is made and its frames are
\* written, and the asset directories are pruned.
PersistClip(clip_id, failing) ==
    /\ LET written == Put(assets_dir, clip_id, now_seconds) IN
       \E order \in SortedOrders(written) :
           /\ assets_dir' = _prune_asset_dirs(written, order, clip_id,
                                              insight_settings.assets, now_seconds, failing)
           /\ pruned' = DOMAIN written \ DOMAIN assets_dir'
    /\ current_clip_dir' = clip_id
    /\ UNCHANGED <<engine_vars, conn_vars>>

\* Another writer creates or touches a clip directory.
SiblingWritten(name, mtime) ==
    /\ assets_dir' = Put(assets_dir, name, mtime)
    /\ UNCHANGED <<current_clip_dir, pruned>>
    /\ UNCHANGED <<engine_vars, conn_vars>>

HourPasses ==
    /\ clock + 3600000 <= MaxPruneHours * 3600000
    /\ clock' = clock + 3600000
    /\ UNCHANGED <<service, tracking_settings, insight_settings, _frames, _next_seq,
                   _frame_event, _last_insight_ts_ms, _last_surprise_trigger_ts_ms,
                   pending_frame, pending_frame_event, inference_running, send_lock, pc,
                   payload, frame, job, in_worker, processed, frame_msgs>>
    /\ NothingLogged
    /\ UNCHANGED <<engine_vars, asset_vars>>

NextPrune ==
    \/ HourPasses
    \/ \E name \in ClipIds, mtime \in Mtimes : SiblingWritten(name, mtime)
    \/ \E clip_id \in ClipIds, failing \in RemovalErrors : PersistClip(clip_id, failing)

SpecPrune == InitPrune /\ [][NextPrune]_vars

\* The directories of dirs other than d with a later mtime, and with a later
\* or the same mtime.
NewerThan(dirs, d) == {e \in DOMAIN dirs : dirs[e] > dirs[d]}
NotOlderThan(dirs, d) == {e \in DOMAIN dirs : e # d /\ dirs[e] >= dirs[d]}

\* before is the directory with the clip written, after the directory that
\* the pruning leaves.
PruneHolds(before, after, current, assets, now, failing) ==
    LET Aged(d) == before[d] < now - assets.max_age_hours * 3600 IN
    /\ current \in DOMAIN after
    /\ \A d \in DOMAIN after : d \in DOMAIN before /\ after[d] = before[d]
    /\ failing = {} =>
         \A d \in DOMAIN before \ {current} :
             /\ (Aged(d) \/ Cardinality(NewerThan(before, d)) >= assets.max_clips)
                  => d \notin DOMAIN after
             /\ d \notin DOMAIN after
                  => (Aged(d) \/ Cardinality(NotOlderThan(before, d)) >= assets.max_clips)

WorkerFairness ==
    /\ WF_vars(WorkerWake)
    /\ WF_vars(\E outcome \in FrameOutcomes, detections \in ConnDetLists :
                   InferDone(outcome, detections))
    /\ SF_vars(AcquireLock("worker"))
    /\ \A t \in Tasks : WF_vars(\E ok \in BOOLEAN : WriteDone(t, ok))

\* --- The receive loop and the worker alone: the client sends frames only.
MaxWorkerFrames == 3

NextWorker ==
    \/ \E frame_id \in FrameIds : _next_seq <= MaxWorkerFrames /\ RecvFrame(frame_id)
    \/ WorkerWake
    \/ \E outcome \in FrameOutcomes, detections \in ConnDetLists :
           InferDone(outcome, detections)
    \/ \E t \in Tasks : AcquireLock(t)
    \/ \E t \in Tasks, ok \in BOOLEAN : WriteDone(t, ok)

SpecWorker == InitConn /\ [][NextWorker]_vars /\ WorkerFairness

\* The frame was taken by the worker, and process_frame has returned for it
\* after handing one detections or error payload to the socket.
Answered(seq) == seq \in processed

Accepted(t) == pc[t] \in {"clip_wait", "agent"}

\* The cooldown runs although no insight was delivered and no attempt is in
\* flight: every accepted attempt so far has failed.
CooldownOfFailedAttempt ==
    /\ insight_settings.enabled
    /\ _last_insight_ts_ms # NoneInt
    /\ clock - _last_insight_ts_ms < insight_settings.insight_cooldown_ms
    /\ insight_sent_ms = NoneInt
    /\ \A t \in InsightTasks : ~Accepted(t) /\ payload[t].type # "insight"

\* C36: the insight cooldown starts when a trigger is accepted, not when an
\* insight is delivered: the step that accepts a trigger stamps
\* _last_insight_ts_ms with the trigger time, the failure of an accepted
\* manual or auto insight leaves the stamp as it is, and so a manual
\* insight_test within insight_cooldown_ms of the failed attempt fails with
\* INSIGHT_COOLDOWN and an auto trigger in that period is skipped without a
\* message.
C36_CooldownFromAcceptance ==
    [][\A t \in InsightTasks :
          /\ (pc[t] = "created" /\ Accepted(t)')
               => (_last_insight_ts_ms' = clock /\ job'[t].now_ms = clock)
          /\ (Accepted(t) /\ ~Accepted(t)' /\ payload'[t].type # "insight")
               => /\ _last_insight_ts_ms' = _last_insight_ts_ms
                  /\ _last_insight_ts_ms >= job[t].now_ms
          /\ (pc[t] = "created" /\ pc'[t] # "created" /\ CooldownOfFailedAttempt)
               => /\ UNCHANGED <<_last_insight_ts_ms, _last_surprise_trigger_ts_ms>>
                  /\ IF t = "manual"
                     THEN payload'[t] = make_error("INSIGHT_COOLDOWN", None)
                     ELSE pc'[t] = "done" /\ payload' = payload]_vars

\* The manual insight_test is being answered with INSIGHT_COOLDOWN during
\* the cooldown of a failed attempt.
C36_Witness ==
    /\ CooldownOfFailedAttempt
    /\ Sending(pc["manual"])
    /\ payload["manual"] = make_error("INSIGHT_COOLDOWN", None)
    /\ pc["auto"] = "done"


\* ------------------------------------------------------------------------
\* Consistency of the stored object states (abandoned.py 244-302, 350-377)
\* ------------------------------------------------------------------------
\* The object state has a committed association.
IsAssociated(state) == state.associated_person_id # NoneInt

\* The object state has an active abandonment.
IsAbandoning(state) == state.abandon_started_ts_ms # NoneInt

ObjectStateConsistent(state) ==
    /\ ~(IsAssociated(state) /\ IsAbandoning(state))
    /\ (state.abandon_person_id # NoneInt) <=> IsAbandoning(state)
    /\ (state.abandon_reference_point # NonePoint) <=> IsAbandoning(state)
    /\ state.abandoned_emitted => IsAbandoning(state)

\* C37: after every process_samples call each stored object state has never
\* both a committed association and an active abandonment, has
\* abandon_person_id and abandon_reference_point set exactly when
\* abandon_started_ts_ms is set, and has abandoned_emitted only with
\* abandon_started_ts_ms set.
C37_ObjectStateConsistent ==
    \A t \in DOMAIN objects : ObjectStateConsistent(objects[t])

\* An object whose abandonment has emitted, left by a call of process_samples.
C37_Witness ==
    /\ 1 \in DOMAIN objects
    /\ objects[1].last_seen_ts_ms = now_ts
    /\ IsAbandoning(objects[1])
    /\ objects[1].abandoned_emitted
    /\ objects[1].abandon_person_id = 2


\* ------------------------------------------------------------------------
\* Cancellation of an abandonment by a person in range
\* (abandoned.py 244-268, 350-377)
\* ------------------------------------------------------------------------
\* --- Backpack 1 at rest, persons 2 and 3 next to it or 400 px away.
CancelObject == Det(1, "backpack", <<100, 100>>)
CancelPersons == {Det(2, "person", <<100, 150>>), Det(2, "person", <<100, 500>>),
                  Det(3, "person", <<150, 100>>)}
CancelDetLists ==
    {<<>>, <<CancelObject>>}
        \cup {<<CancelObject, p>> : p \in CancelPersons}
        \cup {<<Det(2, "person", <<100, 500>>), CancelObject, q>> : q \in CancelPersons}
CancelDeltas == {0, TimeStep, TRACK_STATE_TTL_MS + TimeStep}

InitCancel ==
    /\ roi_settings = DisabledRoi
    /\ motion_settings = DisabledMotion
    /\ collision_settings = DisabledCollision
    /\ abandoned_settings \in {[DisabledAbandoned EXCEPT !.enabled = TRUE,
                                                         !.abandon_delay_ms = dl,
                                                         !.event_cooldown_ms = cd] :
                                 dl \in {TimeStep, 2 * TimeStep}, cd \in {0}}
    /\ InitEngineState
    /\ IdleConnection

\* Frames of the same timestamp only while the object has no state.
NextCancel ==
    \E d \in CancelDeltas, detections \in CancelDetLists :
        /\ d = 0 => 1 \notin DOMAIN objects
        /\ Process(now_ts + d, detections)

SpecCancel == InitCancel /\ [][NextCancel]_vars

\* The state of object t, a fresh one when none is stored.
ObjectState(ob, t) == IF t \in DOMAIN ob THEN ob[t] ELSE NewObjectTrackState("")

\* The persons within associate_max_distance_px of object t among the
\* detections the engine uses of a frame.
PersonsNear(detections, t) ==
    {detections[j].track_id : j \in
        {j \in 1..Len(detections) :
            /\ detections[j].name = PERSON_CLASS_NAME
            /\ detections[j].track_id # t
            /\ \E i \in 1..Len(detections) :
                   /\ detections[i].track_id = t
                   /\ _distance_px(box_centroid(detections[i].box),
                                   box_centroid(detections[j].box))
                        <= abandoned_settings.associate_max_distance_px}}

\* The frame cancels the abandonment of t: nothing is emitted for t and t is
\* left without abandonment and without association.
AbandonmentCancelled(before, after, events, t) ==
    /\ CountNamed(events, "abandoned_object", t) = 0
    /\ ~IsAbandoning(after)
    /\ ~IsAssociated(after)

\* An association is committed only to a person in range in this frame who
\* has been the candidate for at least associate_min_ms.
CommitNeedsPerson(before, after, near, ts_ms) ==
    (IsAssociated(after) /\ after.associated_person_id # before.associated_person_id) =>
        /\ after.associated_person_id \in near
        /\ before.association_candidate_person_id = after.associated_person_id
        /\ ts_ms - before.association_candidate_since_ms
             >= abandoned_settings.associate_min_ms

\* An abandonment window starts only at an object with a committed
\* association, at the timestamp of the frame.
WindowNeedsAssociation(before, after, ts_ms) ==
    (IsAbandoning(after) /\ ~IsAbandoning(before)) =>
        /\ IsAssociated(before)
        /\ after.abandon_started_ts_ms = ts_ms
        /\ after.abandon_person_id = before.associated_person_id

\* An emission needs a window that has lasted abandon_delay_ms.
EmitNeedsWindow(after, events, ts_ms, t) ==
    CountNamed(events, "abandoned_object", t) > 0 =>
        /\ IsAbandoning(after)
        /\ ts_ms - after.abandon_started_ts_ms >= abandoned_settings.abandon_delay_ms

CancelHolds(ob, ob2, events, ts_ms, detections, t) ==
    LET before == ObjectState(ob, t)
        after == ObjectState(ob2, t)
        near == PersonsNear(detections, t)
    IN  /\ (IsAbandoning(before) /\ ~before.abandoned_emitted /\ near # {})
               => AbandonmentCancelled(before, after, events, t)
        /\ CommitNeedsPerson(before, after, near, ts_ms)
        /\ WindowNeedsAssociation(before, after, ts_ms)
        /\ EmitNeedsWindow(after, events, ts_ms, t)

\* C38: a frame in which any person, for that one frame only and not
\* necessarily the one associated before, is within
\* associate_max_distance_px of an object that is Abandoning and has not
\* emitted cancels the abandonment: nothing is emitted for the object and it
\* is left without window and without association, and from there an
\* abandoned_object needs a window that has lasted abandon_delay_ms, a window
\* needs a committed association, and an association needs a person in range
\* who has been the candidate for at least associate_min_ms.
C38_NearPersonCancels ==
    [][\A detections \in CancelDetLists :
          Process(now_ts', detections) =>
              CancelHolds(objects, objects', last_events', now_ts',
                          KeepFirst(detections), 1)]_vars

\* The frame after the window of person 2 has started: person 3 alone is next
\* to the object, which is left with that person as a new candidate and
\* without window, association and event.
C38_Witness ==
    /\ 1 \in DOMAIN objects
    /\ objects[1].last_seen_ts_ms = now_ts
    /\ objects[1].association_candidate_person_id = 3
    /\ objects[1].association_candidate_since_ms = now_ts
    /\ now_ts = 3 * TimeStep
    /\ seen_ts[2] = 2 * TimeStep
    /\ ~IsAbandoning(objects[1])
    /\ ~IsAssociated(objects[1])
    /\ last_events = <<>>


\* ------------------------------------------------------------------------
\* The engine without debounce (quickvision/app/events.py)
\* ------------------------------------------------------------------------
\* TrackEventState of quickvision (no pending fields).
QV_NewTrackEventState(ts_ms) ==
    [regions_inside |-> EmptyDict,
     region_enter_ts_ms |-> EmptyDict,
     region_dwell_emitted |-> EmptyDict,
     line_side_state |-> EmptyDict,
     last_seen_ts_ms |-> ts_ms]

\* One iteration of the loop over regions (quickvision events.py 95-146).
\* acc = [state, events].
QV_RegionStep(acc, rs, region_name, track_id, ts_ms, point) ==
    LET inside_now == point_in_region(point, Regions[region_name])
        inside_before == Get(acc.state.regions_inside, region_name, FALSE)
        t == IF inside_now /\ ~inside_before
             THEN [state |-> [acc.state EXCEPT
                                !.region_enter_ts_ms = Put(@, region_name, ts_ms),
                                !.region_dwell_emitted = Put(@, region_name, FALSE)],
                   events |-> Append(acc.events,
                                     RoiEvent("roi_enter", ts_ms, track_id, region_name))]
             ELSE IF inside_before /\ ~inside_now
             THEN [state |-> [acc.state EXCEPT
                                !.region_enter_ts_ms = Pop(@, region_name),
                                !.region_dwell_emitted = Pop(@, region_name)],
                   events |-> Append(acc.events,
                                     RoiEvent("roi_exit", ts_ms, track_id, region_name))]
             ELSE acc
        had_enter == region_name \in DOMAIN t.state.region_enter_ts_ms
        enter_ts_ms == IF had_enter THEN t.state.region_enter_ts_ms[region_name] ELSE ts_ms
        s1 == IF had_enter THEN t.state
              ELSE [t.state EXCEPT !.region_enter_ts_ms = Put(@, region_name, ts_ms)]
        dwell_emitted == Get(s1.region_dwell_emitted, region_name, FALSE)
        dwell_threshold_ms == dwell_threshold_ms_for_region(rs, region_name)
        dwell_ms == Max(ts_ms - enter_ts_ms, 0)
        d == IF ~inside_now THEN t
             ELSE IF ~dwell_emitted /\ dwell_ms >= dwell_threshold_ms
             THEN [state |-> [s1 EXCEPT !.region_dwell_emitted = Put(@, region_name, TRUE)],
                   events |-> Append(t.events,
                                     DwellEvent(ts_ms, track_id, region_name, dwell_ms))]
             ELSE [t EXCEPT !.state = s1]
    IN  [d EXCEPT !.state.regions_inside = Put(@, region_name, inside_now)]

RECURSIVE QV_RegionLoop(_, _, _, _, _, _)
QV_RegionLoop(acc, rs, i, track_id, ts_ms, point) ==
    IF i > Len(rs.regions) THEN acc
    ELSE QV_RegionLoop(QV_RegionStep(acc, rs, rs.regions[i], track_id, ts_ms, point),
                       rs, i + 1, track_id, ts_ms, point)

\* quickvision DetectionEventEngine._append_region_events
QV_append_region_events(acc, rs, track_id, ts_ms, point) ==
    QV_RegionLoop(acc, rs, 1, track_id, ts_ms, point)

\* quickvision DetectionEventEngine._append_line_events: the text of the
\* method is that of eva/vision.
QV_append_line_events(acc, rs, track_id, ts_ms, point) ==
    LineLoop(acc, rs, 1, track_id, ts_ms, point)

\* Body of the loop over detections (quickvision events.py 35-76).
\* acc = [tracks, motion, events, seen].
QV_DetectionStep(acc, rs, ms, ts_ms, detection) ==
    LET track_id == detection.track_id IN
    IF track_id = NoneInt THEN acc
    ELSE IF track_id \in acc.seen THEN acc
    ELSE
      LET point == box_centroid(detection.box)
          state0 == IF track_id \in DOMAIN acc.tracks THEN acc.tracks[track_id]
                    ELSE QV_NewTrackEventState(ts_ms)
          state1 == [state0 EXCEPT !.last_seen_ts_ms = ts_ms]
          roi == IF rs.enabled
                 THEN QV_append_line_events(
                        QV_append_region_events([state |-> state1, events |-> acc.events],
                                                rs, track_id, ts_ms, point),
                        rs, track_id, ts_ms, point)
                 ELSE [state |-> state1, events |-> acc.events]
          mot == IF ms.enabled
                 THEN process_sample(acc.motion, ms, track_id, ts_ms, point)
                 ELSE [tracks |-> acc.motion, events |-> <<>>]
      IN  [tracks |-> IF rs.enabled THEN Put(acc.tracks, track_id, roi.state) ELSE acc.tracks,
           motion |-> mot.tracks,
           events |-> roi.events \o mot.events,
           seen |-> acc.seen \cup {track_id}]

RECURSIVE QV_DetectionLoop(_, _, _, _, _, _)
QV_DetectionLoop(acc, rs, ms, ts_ms, detections, i) ==
    IF i > Len(detections) THEN acc
    ELSE QV_DetectionLoop(QV_DetectionStep(acc, rs, ms, ts_ms, detections[i]),
                          rs, ms, ts_ms, detections, i + 1)

\* quickvision DetectionEventEngine.process: [tracks, motion, events].
QV_process(es, rs, ms, ts_ms, detections) ==
    IF ~rs.enabled /\ ~ms.enabled
    THEN [tracks |-> es.tracks, motion |-> es.motion, events |-> <<>>]
    ELSE
      LET d == QV_DetectionLoop([tracks |-> es.tracks, motion |-> es.motion,
                                 events |-> <<>>, seen |-> {}],
                                rs, ms, ts_ms, detections, 1)
      IN  [tracks |-> IF rs.enabled THEN EvictStale(d.tracks, ts_ms, TRACK_STATE_TTL_MS)
                      ELSE d.tracks,
           motion |-> IF ms.enabled THEN Motion_evict_stale(d.motion, ts_ms) ELSE d.motion,
           events |-> d.events]

\* --- Both engines on the same frames, transition_min_ms = 0, with and
\* without the motion engine.
InitEquiv ==
    /\ roi_settings = [DisabledRoi EXCEPT !.enabled = TRUE, !.transition_min_ms = 0]
    /\ motion_settings = DisabledMotion
    /\ collision_settings = DisabledCollision
    /\ abandoned_settings = DisabledAbandoned
    /\ InitEngineState
    /\ IdleConnection

\* Track 1 outside or inside the zone, alone, twice, or with track 2.
EquivDetLists ==
    {<<>>, <<Det(2, "person", <<200, 200>>)>>}
        \cup {<<Det(1, "person", p)>> : p \in RoiPoints}
        \cup {<<Det(1, "person", p), Det(2, "person", <<200, 200>>)>> : p \in RoiPoints}
        \cup {<<Det(1, "person", <<200, 200>>), Det(1, "person", <<200, 50>>)>>}

NextEquiv == \E d \in RoiDeltas, detections \in EquivDetLists : Process(now_ts + d, detections)

SpecEquiv == InitEquiv /\ [][NextEquiv]_vars

\* The committed-inside, enter-time, dwell-emitted and line-side state and
\* last_seen_ts_ms of every track of the debounce-capable engine.
WithoutPending(tr) ==
    [t \in DOMAIN tr |->
        [regions_inside |-> tr[t].regions_inside,
         region_enter_ts_ms |-> tr[t].region_enter_ts_ms,
         region_dwell_emitted |-> tr[t].region_dwell_emitted,
         line_side_state |-> tr[t].line_side_state,
         last_seen_ts_ms |-> tr[t].last_seen_ts_ms]]

\* From equal states, one frame gives both engines the same events and
\* leaves them in equal states.
SameFrame(tr, mt, tr2, mt2, events, ts_ms, detections) ==
    LET q == QV_process([tracks |-> WithoutPending(tr), motion |-> mt],
                        roi_settings, motion_settings, ts_ms, detections)
    IN  /\ q.events = events
        /\ q.tracks = WithoutPending(tr2)
        /\ q.motion = mt2

InitEvict == InitClip

NextEvict ==
    \/ \E frame_id \in FrameIds : _next_seq <= MaxBufferFrames /\ add_frame(frame_id)
    \/ \E i \in 1..Len(_frames) : _next_seq <= MaxClipFrames /\ BuildClip(_frames[i])
    \/ \E timed_out \in BOOLEAN : ClipWake("manual", timed_out)

SpecEvict == InitEvict /\ [][NextEvict]_vars

\* The trigger is no longer in the buffer.
TriggerEvicted(t) == \A i \in 1..Len(_frames) : _frames[i].seq # job[t].trigger.seq

\* C40: for every configuration load_insight_settings produces (max_frames in
\* 1..6, pre_frames and post_frames at most max_frames - 1), every clip
\* _build_clip returns contains the trigger frame, also when the trigger has
\* been evicted from the buffer of 128 frames during the wait for
\* post-frames; the clip is never empty and NO_CLIP_FRAMES is never raised.
C40_ClipHasTrigger ==
    \A t \in InsightTasks :
        /\ pc[t] = "agent" =>
             /\ Clip(insight_settings, job[t]) # <<>>
             /\ \E k \in 1..Len(Clip(insight_settings, job[t])) :
                    Clip(insight_settings, job[t])[k] = job[t].trigger
        /\ payload[t].code # "NO_CLIP_FRAMES"

\* A clip of frame 1, its trigger, and of frames 3 and 4, collected after
\* frames 1 and 2 had been evicted during the wait.
C40_Witness ==
    /\ pc["manual"] = "agent"
    /\ job["manual"].trigger.seq = 1
    /\ TriggerEvicted("manual")
    /\ Len(job["manual"].post_frames) = 2
    /\ job["manual"].post_frames[1].seq = 3
    /\ Clip(insight_settings, job["manual"])[1] = job["manual"].trigger
====
